---- MODULE Spec2Model ----
(***************************************************************************)
(* Concurrency core of minimal-audio-engine:                               *)
(*   - MessageQueue<T>          (framework/include/logger.h, 94-188)       *)
(*   - IEngine<T> thread lifecycle (framework/include/engine.h)            *)
(*   - AudioEngine state machine (audioengine/src/audioengine.cpp)         *)
(*   - CoreEngine and MidiEngine workers (coreengine/src/coreengine.cpp,   *)
(*     midiengine/include/midiengine.h)                                    *)
(*   - MidiEngine input port, Subject<T> fan-out, Track MIDI input binding *)
(*     (midiengine/src/midiengine.cpp, subject.h, trackmanager/src/track.cpp) *)
(* Code under one mutex is one atomic step; everything else is split at    *)
(* the points where another thread can interleave.                         *)
(***************************************************************************)
EXTENDS Integers, Sequences, FiniteSets, TLC

(* ---------------------------- bounds ----------------------------------- *)
NumThreads == 3      \* threads using the stand-alone MessageQueue
MaxPush == 3         \* items pushed to the stand-alone MessageQueue

MaxQueue == 2        \* messages waiting in the AudioEngine's queue
MaxCommands == 4     \* commands the one-command-at-a-time caller issues
MaxCallbacks == 1    \* render callbacks counted in m_total_frames_processed

MaxEnginePush == 2   \* messages pushed to the CoreEngine's and to the MidiEngine's queue
NumObservers == 2    \* observers (tracks) that can be attached to the MidiEngine
NumPorts == 2        \* MIDI input ports the transport enumerates (getPortCount)
MaxMidi == 2         \* MIDI messages the transport's callback delivers

NumFiles == 1        \* WAV files that are bound as audio inputs
FileBuffers == 1     \* full buffers of frames a WAV file holds
MaxStops == 2        \* Stop commands the render callback enqueues

Threads == 1..NumThreads
NoValue == 0         \* std::nullopt
NoThread == 0

VARIABLES
  (* stand-alone MessageQueue<T> instance and the threads using it *)
  m_queue,           \* std::queue<T> m_queue
  m_stopped,         \* std::atomic<bool> m_stopped
  tpc,               \* per thread: "idle" | "pop_wait" | "pop_woken" | "stop_notify"
  pushed,            \* history: items in the order the pushes took effect
  popped,            \* history: items in the order the removals took effect
  lastRet,           \* the most recent return of pop / try_pop (and m_stopped then)
  blockedAtStop,     \* history: consumers that were blocked in pop() when stop() ran
  drained            \* history: the queue has been stopped and empty at the same time

mqvars == <<m_queue, m_stopped, tpc, pushed, popped, lastRet, blockedAtStop, drained>>

VARIABLES
  (* IEngine<AudioMessage> members of the AudioEngine *)
  m_message_queue,   \* MessageQueue<AudioMessage> m_message_queue (its m_queue)
  eq_stopped,        \* m_message_queue.m_stopped
  m_running,         \* std::atomic<bool> m_running
  m_thread,          \* std::jthread m_thread: the worker it owns, NoWorker if not joinable
  wpc,               \* position of each worker thread in _run() / run()
  cpc,               \* position of the thread calling start_thread / stop_thread
  (* AudioEngine members *)
  m_state,           \* std::atomic<eAudioEngineState> m_state
  m_device_id, m_channels, m_sample_rate, m_buffer_frames,
  m_tracks_playing, m_total_frames_processed,
  stream,            \* RtAudio stream: "closed" | "open" (not running) | "running"
  (* history *)
  lastCall,          \* the last start_thread/stop_thread call that returned
  lastHandled,       \* during a drain: the message handled last, m_state before it
  lastTick,          \* after a tick: update_state()'s m_state before, transport outcome
  issued             \* commands issued by the one-command-at-a-time caller (NextSeq)

ievars == <<m_message_queue, eq_stopped, m_running, m_thread, wpc, cpc>>
paramvars == <<m_device_id, m_channels, m_sample_rate, m_buffer_frames>>
statvars == <<m_tracks_playing, m_total_frames_processed>>
histvars == <<lastCall, lastHandled, lastTick, issued>>
aevars == <<ievars, m_state, paramvars, statvars, stream, histvars>>

VARIABLES
  (* IEngine<T> members of the CoreEngine and the MidiEngine, per engine *)
  e_queue,           \* m_message_queue (its m_queue)
  e_qstopped,        \* m_message_queue.m_stopped
  e_running,         \* std::atomic<bool> m_running
  e_thread,          \* std::jthread m_thread: Owned once a worker was created
  e_wpc,             \* position of the engine's worker in _run() / run()
  e_cpc,             \* position of the thread calling start_thread / stop_thread
  (* history *)
  e_pushed,          \* number of messages pushed to the engine so far
  e_handled,         \* messages the worker has handled, in order
  e_lastCall         \* the last start_thread/stop_thread call that returned

gevars == <<e_queue, e_qstopped, e_running, e_thread, e_wpc, e_cpc, e_pushed, e_handled,
            e_lastCall>>

VARIABLES
  (* MidiEngine: the RtMidiIn transport and the Subject<MidiMessage> base *)
  port_open,         \* RtMidiIn: the input port that is open, NoPort if none
  callback_set,      \* RtMidiIn: a receive callback is registered
  m_observers,       \* std::vector<std::weak_ptr<Observer<T>>> m_observers
  alive,             \* observers (tracks) whose target object still exists
  received,          \* history: messages the transport callback was invoked with
  delivered,         \* history: per observer, the messages passed to update()
  lastMidi,          \* the last open_input_port / close_input_port call and how it ended
  (* Track *)
  m_midi_input       \* per track: the bound MIDI input device, NoDevice if none

mdvars == <<port_open, callback_set, m_observers, alive, received, delivered, lastMidi,
            m_midi_input>>

VARIABLES
  (* Track: the three other binding slots (std::variant members) *)
  m_audio_input,     \* per track: AudioIOVariant m_audio_input
  m_audio_output,    \* per track: AudioIOVariant m_audio_output
  m_midi_output,     \* per track: the bound MIDI output device, NoDevice if none
  lastBind,          \* the last add_* / remove_* call on a track and how it ended
  (* TrackManager *)
  m_tracks,          \* std::vector<TrackPtr> m_tracks
  held,              \* tracks a caller holds a TrackPtr to (from get_track)
  lastTM,            \* the last TrackManager call and how it ended
  (* WavFile and the render callback of the AudioInterface *)
  file_left,         \* per WAV file: frames left before the end of the file
  rpc,               \* position of the transport's thread in process_audio()
  r_index,           \* process_audio(): the loop variable i
  r_stops,           \* history: Stop commands enqueued by the render callback
  (* Track: the queue of MIDI messages and the thread handling them *)
  track_queue,       \* std::queue<Midi::MidiMessage> m_message_queue of the track
  updates,           \* history: messages passed to update(), in the order they took effect
  handled,           \* history: messages handle_midi_message() took, in order
  hpc,               \* position of the thread in handle_midi_message()
  lastPop            \* what the last handle_midi_message() found (type "empty": nothing)

trackvars == <<m_audio_input, m_audio_output, m_midi_output, lastBind>>
tmvars == <<m_tracks, held, lastTM>>
rendervars == <<file_left, rpc, r_index, r_stops>>
tqvars == <<track_queue, updates, handled, hpc, lastPop>>
tkvars == <<trackvars, tmvars, rendervars, tqvars>>

(* ------------------- MessageQueue<T>: pure parts ----------------------- *)

\* m_queue.push(message)
QueuePush(q, message) == Append(q, message)

\* mutant: the newest item is handed out instead of the oldest
QueueFront_back(q) == q[Len(q)]

\* m_queue.front()
QueueFront(q) == Head(q)

\* mutant: the front item is left in the queue
QueuePop_keep(q) == q

\* m_queue.pop()
QueuePop(q) == Tail(q)

\* mutant: the wait predicate ignores m_stopped
PopPredicate_nostop(stopped, q) == q # <<>>

\* predicate of m_condition.wait in pop()
PopPredicate(stopped, q) == stopped \/ q # <<>>

\* mutant: nullopt as soon as the queue is stopped, items left or not
PopIsNullopt_stoponly(stopped, q) == stopped

\* what pop() returns once its wait is over: nullopt iff stopped and empty
PopIsNullopt(stopped, q) == stopped /\ q = <<>>

\* try_pop() on queue q: <<returned value, queue afterwards>>
TryPopResult(q) ==
  IF q # <<>> THEN <<QueueFront(q), QueuePop(q)>> ELSE <<NoValue, q>>

Waiting == {t \in Threads : tpc[t] = "pop_wait"}

\* history: remember that the queue was seen stopped and empty
NoteDrained == drained' = (drained \/ (m_stopped' /\ m_queue' = <<>>))

(* ------------------- MessageQueue<T>: operations ----------------------- *)

InitMQ ==
  /\ m_queue = <<>>
  /\ m_stopped = FALSE
  /\ tpc = [t \in Threads |-> "idle"]
  /\ pushed = <<>>
  /\ popped = <<>>
  /\ lastRet = [thread |-> NoThread, op |-> "none", val |-> NoValue, stopped |-> FALSE]
  /\ blockedAtStop = {}
  /\ drained = FALSE

\* mutant: push() without the notify_one
Push_noNotify(t) ==
  /\ tpc[t] = "idle"
  /\ Len(pushed) < MaxPush
  /\ LET message == Len(pushed) + 1 IN
       /\ m_queue' = QueuePush(m_queue, message)
       /\ pushed' = Append(pushed, message)
  /\ UNCHANGED <<m_stopped, tpc, popped, lastRet, blockedAtStop, aevars, gevars, mdvars, tkvars>>
  /\ NoteDrained

\* push(): lock; m_queue.push; notify_one; unlock
Push(t) ==
  /\ tpc[t] = "idle"
  /\ Len(pushed) < MaxPush
  /\ LET message == Len(pushed) + 1 IN
       /\ m_queue' = QueuePush(m_queue, message)
       /\ pushed' = Append(pushed, message)
  /\ IF Waiting = {}
       THEN tpc' = tpc
       ELSE \E w \in Waiting : tpc' = [tpc EXCEPT ![w] = "pop_woken"]
  /\ UNCHANGED <<m_stopped, popped, lastRet, blockedAtStop, aevars, gevars, mdvars, tkvars>>
  /\ NoteDrained

\* the part of pop() after the wait: lines 135-142, under the mutex
PopFinish(t) ==
  /\ IF PopIsNullopt(m_stopped, m_queue)
       THEN /\ lastRet' = [thread |-> t, op |-> "pop", val |-> NoValue, stopped |-> m_stopped]
            /\ UNCHANGED <<m_queue, popped>>
       ELSE /\ lastRet' = [thread |-> t, op |-> "pop", val |-> QueueFront(m_queue),
                            stopped |-> m_stopped]
            /\ m_queue' = QueuePop(m_queue)
            /\ popped' = Append(popped, QueueFront(m_queue))
  /\ tpc' = [tpc EXCEPT ![t] = "idle"]

\* pop(): lock; wait(pred): either the predicate holds and pop() goes on, or
\* the thread blocks on the condition variable
PopEnter(t) ==
  /\ tpc[t] = "idle"
  /\ IF PopPredicate(m_stopped, m_queue)
       THEN PopFinish(t)
       ELSE /\ tpc' = [tpc EXCEPT ![t] = "pop_wait"]
            /\ UNCHANGED <<m_queue, popped, lastRet>>
  /\ UNCHANGED <<m_stopped, pushed, blockedAtStop, aevars, gevars, mdvars, tkvars>>
  /\ NoteDrained

\* a woken consumer re-acquires the mutex and re-evaluates the predicate
PopWake(t) ==
  /\ tpc[t] = "pop_woken"
  /\ IF PopPredicate(m_stopped, m_queue)
       THEN PopFinish(t)
       ELSE /\ tpc' = [tpc EXCEPT ![t] = "pop_wait"]
            /\ UNCHANGED <<m_queue, popped, lastRet>>
  /\ UNCHANGED <<m_stopped, pushed, blockedAtStop, aevars, gevars, mdvars, tkvars>>
  /\ NoteDrained

\* std::condition_variable::wait may wake spuriously
SpuriousWake(t) ==
  /\ tpc[t] = "pop_wait"
  /\ tpc' = [tpc EXCEPT ![t] = "pop_woken"]
  /\ UNCHANGED <<m_queue, m_stopped, pushed, popped, lastRet, blockedAtStop, aevars, gevars, mdvars, tkvars>>
  /\ NoteDrained

\* try_pop(): lock; front+pop if not empty, else nullopt
TryPop(t) ==
  /\ tpc[t] = "idle"
  /\ LET r == TryPopResult(m_queue) IN
       /\ lastRet' = [thread |-> t, op |-> "try_pop", val |-> r[1], stopped |-> m_stopped]
       /\ m_queue' = r[2]
       /\ popped' = IF r[1] # NoValue THEN Append(popped, r[1]) ELSE popped
  /\ UNCHANGED <<m_stopped, tpc, pushed, blockedAtStop, aevars, gevars, mdvars, tkvars>>
  /\ NoteDrained

\* stop(), first half: { lock; m_stopped = true; }
StopSet(t) ==
  /\ tpc[t] = "idle"
  /\ m_stopped' = TRUE
  /\ tpc' = [tpc EXCEPT ![t] = "stop_notify"]
  /\ blockedAtStop' = blockedAtStop \cup {c \in Threads : tpc[c] \in {"pop_wait", "pop_woken"}}
  /\ UNCHANGED <<m_queue, pushed, popped, lastRet, aevars, gevars, mdvars, tkvars>>
  /\ NoteDrained

\* stop(), second half: m_condition.notify_all()
StopNotify(t) ==
  /\ tpc[t] = "stop_notify"
  /\ tpc' = [c \in Threads |->
               IF c = t THEN "idle"
               ELSE IF tpc[c] = "pop_wait" THEN "pop_woken" ELSE tpc[c]]
  /\ UNCHANGED <<m_queue, m_stopped, pushed, popped, lastRet, blockedAtStop, aevars, gevars, mdvars, tkvars>>
  /\ NoteDrained

\* a consumer that calls pop() on an empty queue that is not stopped, so
\* that it blocks
BlockingPop(t) ==
  /\ m_queue = <<>>
  /\ ~m_stopped
  /\ PopEnter(t)

\* producers and consumers that block in pop(); the queue is not stopped
NextWake ==
  \E t \in Threads :
    \/ Push(t)
    \/ BlockingPop(t)
    \/ PopWake(t)
    \/ SpuriousWake(t)

NextMQ ==
  \E t \in Threads :
    \/ Push(t)
    \/ PopEnter(t)
    \/ PopWake(t)
    \/ SpuriousWake(t)
    \/ TryPop(t)
    \/ StopSet(t)
    \/ StopNotify(t)

(* ===================== IEngine / AudioEngine =========================== *)

\* worker threads: Owned is the one m_thread owns, Assigned the new one that
\* start_thread() is move-assigning to a still joinable m_thread
Owned == 1
Assigned == 2
NoWorker == 0
Workers == {Owned, Assigned}

States == {"Idle", "Stopped", "Running", "Start"}
\* device ids: the constructor's m_device_id and the one the tests select
DefaultDevice == 0
TestDevice == 1
DeviceIds == {DefaultDevice, TestDevice}

\* <<channels, sample_rate, buffer_frames>>: the constructor's and the ones the test sets
DefaultParams == <<2, 44100, 512>>
ParamChoices == {<<1, 152000, 256>>}

Monostate == <<>>
AudioMessages ==
  {[command |-> c, payload |-> Monostate] : c \in {"Play", "Stop"}}
    \cup {[command |-> "SetDevice", payload |-> <<d>>] : d \in DeviceIds \ {DefaultDevice}}
    \cup {[command |-> "SetParams", payload |-> p] : p \in ParamChoices}

Msg(c) == [command |-> c, payload |-> Monostate]

\* outcomes of the RtAudio calls made in one tick ("none" when no call is
\* made); a failing call throws, which is what the try/catch blocks handle
Failures == {"stop_fail", "close_fail", "open_fail", "start_fail"}
Outcomes == {"ok"} \cup Failures

NoHandled == [command |-> "none", payload |-> Monostate, from |-> "Idle"]
NoTick == [from |-> "Idle", outcome |-> "none"]

InitAE ==
  /\ m_message_queue = <<>>
  /\ eq_stopped = FALSE
  /\ m_running = FALSE
  /\ m_thread = NoWorker
  /\ wpc = [w \in Workers |-> "none"]
  /\ cpc = "idle"
  /\ m_state = "Idle"
  /\ m_device_id = DefaultDevice
  /\ m_channels = DefaultParams[1]
  /\ m_sample_rate = DefaultParams[2]
  /\ m_buffer_frames = DefaultParams[3]
  /\ m_tracks_playing = 0
  /\ m_total_frames_processed = 0
  /\ stream = "closed"
  /\ lastCall = "none"
  /\ lastHandled = NoHandled
  /\ lastTick = NoTick
  /\ issued = 0

(* ------------------------- IEngine<T> ---------------------------------- *)

\* mutant: start_thread without the is-running check
AlreadyRunning_never(running) == FALSE

\* start_thread(): if (m_running.load()) return;
AlreadyRunning(running) == running

\* start_thread(), lines 25-29: the early return, or the store and the new
\* std::jthread. The new thread runs from its construction on; the move
\* assignment to a joinable m_thread then joins the previous worker.
StartThread ==
  /\ cpc = "idle"
  /\ IF AlreadyRunning(m_running)
       THEN /\ lastCall' = "start_again"
            /\ UNCHANGED <<m_running, m_thread, wpc, cpc>>
       ELSE /\ m_running' = TRUE
            /\ IF m_thread = NoWorker
                 THEN /\ wpc' = [wpc EXCEPT ![Owned] = "spawned"]
                      /\ m_thread' = Owned
                      /\ cpc' = "start_wait"
                 ELSE /\ wpc' = [wpc EXCEPT ![Assigned] = "spawned"]
                      /\ m_thread' = m_thread
                      /\ cpc' = "start_join"
            /\ UNCHANGED lastCall
  /\ UNCHANGED <<mqvars, gevars, mdvars, tkvars, m_message_queue, eq_stopped, m_state, paramvars, statvars, stream,
                 lastHandled, lastTick, issued>>

\* start_thread(), line 29: the move assignment to a joinable std::jthread
\* joins the previous worker, then m_thread owns the new one
StartJoin ==
  /\ cpc = "start_join"
  /\ wpc[Owned] = "done"
  /\ wpc' = [wpc EXCEPT ![Owned] = wpc[Assigned], ![Assigned] = "none"]
  /\ cpc' = "start_wait"
  /\ UNCHANGED <<mqvars, gevars, mdvars, tkvars, m_message_queue, eq_stopped, m_running, m_thread, m_state,
                 paramvars, statvars, stream, histvars>>

\* start_thread(), lines 32-41: leave the loop as soon as m_running is seen
\* true. The caller itself stored true at line 28 and only this thread makes
\* lifecycle calls, so the loop never waits and its timeout is never taken.
StartWait ==
  /\ cpc = "start_wait"
  /\ m_running
  /\ cpc' = "idle"
  /\ lastCall' = "start"
  /\ UNCHANGED <<mqvars, gevars, mdvars, tkvars, m_message_queue, eq_stopped, m_running, m_thread, wpc, m_state,
                 paramvars, statvars, stream, lastHandled, lastTick, issued>>

\* push_message(): m_message_queue.push(msg); audio workers never block in
\* pop(), so the notify_one has nobody to wake
PushMessage(msg) ==
  /\ Len(m_message_queue) < MaxQueue
  /\ m_message_queue' = QueuePush(m_message_queue, msg)

\* _run(), lines 66-75: name the thread, m_running.store(true), enter run()
WorkerReady(w) ==
  /\ wpc[w] = "spawned"
  /\ m_running' = TRUE
  /\ wpc' = [wpc EXCEPT ![w] = "check"]
  /\ UNCHANGED <<mqvars, gevars, mdvars, tkvars, m_message_queue, eq_stopped, m_thread, cpc, m_state, paramvars,
                 statvars, stream, histvars>>

(* ------------------------- AudioEngine --------------------------------- *)

\* play(), stop(), set_output_device(), set_stream_parameters(): push a message
ClientPush(msg) ==
  /\ PushMessage(msg)
  /\ UNCHANGED <<mqvars, gevars, mdvars, tkvars, eq_stopped, m_running, m_thread, wpc, cpc, m_state, paramvars,
                 statvars, stream, histvars>>

\* AudioEngine::stop_thread(), first line: stop()
StopThread ==
  /\ cpc = "idle"
  /\ PushMessage(Msg("Stop"))
  /\ cpc' = "stop_wait"
  /\ UNCHANGED <<mqvars, gevars, mdvars, tkvars, eq_stopped, m_running, m_thread, wpc, m_state, paramvars,
                 statvars, stream, histvars>>

\* AudioEngine::stop_thread(): the wait for Idle is over; IEngine::stop_thread()
\* clears m_running and stops the queue unless the engine is not running
StopThreadFinish ==
  /\ cpc = "stop_wait"
  /\ m_state = "Idle"
  /\ IF m_running
       THEN m_running' = FALSE /\ eq_stopped' = TRUE
       ELSE UNCHANGED <<m_running, eq_stopped>>
  /\ cpc' = "idle"
  /\ lastCall' = "stop"
  /\ UNCHANGED <<mqvars, gevars, mdvars, tkvars, m_message_queue, m_thread, wpc, m_state, paramvars, statvars,
                 stream, lastHandled, lastTick, issued>>

\* run(): while (is_running())
WorkerCheck(w) ==
  /\ wpc[w] = "check"
  /\ wpc' = [wpc EXCEPT ![w] = IF m_running THEN "drain" ELSE "shutdown"]
  /\ lastTick' = NoTick
  /\ UNCHANGED <<mqvars, gevars, mdvars, tkvars, m_message_queue, eq_stopped, m_running, m_thread, cpc, m_state,
                 paramvars, statvars, stream, lastCall, lastHandled, issued>>

\* mutant: Play is accepted from Stopped only
AfterCommand_playStopped(command, state) ==
  IF command = "Play" /\ state = "Stopped" THEN "Start"
  ELSE IF command = "Stop" /\ state \in {"Running", "Start"} THEN "Stopped"
  ELSE state

\* mutant: Stop is accepted from every state
AfterCommand_stopAny(command, state) ==
  IF command = "Play" /\ state \in {"Idle", "Stopped"} THEN "Start"
  ELSE IF command = "Stop" THEN "Stopped"
  ELSE state

\* mutant: Stop is accepted from Idle as well
AfterCommand_stopIdle(command, state) ==
  IF command = "Play" /\ state \in {"Idle", "Stopped"} THEN "Start"
  ELSE IF command = "Stop" /\ state \in {"Running", "Start", "Idle"} THEN "Stopped"
  ELSE state

\* handle_messages(), Play and Stop cases: the state after the command
AfterCommand(command, state) ==
  IF command = "Play" /\ state \in {"Idle", "Stopped"} THEN "Start"
  ELSE IF command = "Stop" /\ state \in {"Running", "Start"} THEN "Stopped"
  ELSE state

\* handle_messages(), SetDevice case: m_device_id after the command
DeviceAfter(msg, state, device_id) ==
  IF msg.command = "SetDevice" THEN msg.payload[1] ELSE device_id

\* handle_messages(), SetParams case: <<m_channels, m_sample_rate, m_buffer_frames>>
ParamsAfter(msg, state, params) ==
  IF msg.command = "SetParams" THEN msg.payload ELSE params

\* handle_messages(): one turn of the while loop: try_pop_message(), and
\* either the loop ends (nullopt) or the message is applied
WorkerHandle(w) ==
  /\ wpc[w] = "drain"
  /\ IF m_message_queue = <<>>
       THEN /\ wpc' = [wpc EXCEPT ![w] = "update"]
            /\ lastHandled' = NoHandled
            /\ UNCHANGED <<m_message_queue, m_state, paramvars>>
       ELSE LET r == TryPopResult(m_message_queue)
                msg == r[1]
                params == ParamsAfter(msg, m_state, <<m_channels, m_sample_rate, m_buffer_frames>>)
            IN /\ m_message_queue' = r[2]
               /\ m_state' = AfterCommand(msg.command, m_state)
               /\ m_device_id' = DeviceAfter(msg, m_state, m_device_id)
               /\ m_channels' = params[1]
               /\ m_sample_rate' = params[2]
               /\ m_buffer_frames' = params[3]
               /\ lastHandled' = [command |-> msg.command, payload |-> msg.payload,
                                  from |-> m_state]
               /\ UNCHANGED wpc
  /\ UNCHANGED <<mqvars, gevars, mdvars, tkvars, eq_stopped, m_running, m_thread, cpc, statvars, stream, lastCall,
                 lastTick, issued>>

\* can the transport produce this outcome in a tick that starts with stream strm
\* (stopStream is called only on a running stream, closeStream on an open one)
Feasible(o, strm) ==
  CASE o = "stop_fail" -> strm = "running"
    [] o = "close_fail" -> strm # "closed"
    [] OTHER -> TRUE

\* stream after the stop-and-close sequence (isStreamRunning -> stopStream,
\* isStreamOpen -> closeStream)
AfterClose(o, strm) ==
  CASE o = "stop_fail" -> strm
    [] o = "close_fail" -> "open"
    [] OTHER -> "closed"

\* mutant: a transport failure in the Start tick falls back to Stopped
StartResult_failStopped(o, strm) ==
  CASE o \in {"stop_fail", "close_fail"} -> <<"Stopped", AfterClose(o, strm)>>
    [] o = "open_fail" -> <<"Stopped", "closed">>
    [] o = "start_fail" -> <<"Stopped", "open">>
    [] OTHER -> <<"Running", "running">>

\* update_state_start(): <<m_state, stream>> after the tick
StartResult(o, strm) ==
  CASE o \in {"stop_fail", "close_fail"} -> <<"Idle", AfterClose(o, strm)>>
    [] o = "open_fail" -> <<"Idle", "closed">>
    [] o = "start_fail" -> <<"Idle", "open">>
    [] OTHER -> <<"Running", "running">>

\* mutant: update_state_stopped() always returns at its first line
StoppedReturnsEarly_always(strm) == TRUE

\* update_state_stopped(), line 289: nothing to do unless a stream is open
StoppedReturnsEarly(strm) == strm = "closed"

\* mutant: the Running tick does not poll the stream
RunningResult_stays(strm) == "Running"

\* update_state_running(), lines 276-283: if (!p_rtaudio->isStreamRunning())
\* the state becomes Stopped
RunningResult(strm) == IF strm # "running" THEN "Stopped" ELSE "Running"

\* update_state(): one tick of the state machine
WorkerUpdate(w, allowed) ==
  /\ wpc[w] = "update"
  /\ wpc' = [wpc EXCEPT ![w] = "check"]
  /\ CASE m_state = "Idle" ->
            /\ lastTick' = [from |-> "Idle", outcome |-> "none"]
            /\ UNCHANGED <<m_state, stream, m_buffer_frames, m_tracks_playing>>
       [] m_state = "Start" ->
            \E o \in allowed :
              /\ Feasible(o, stream)
              /\ m_state' = StartResult(o, stream)[1]
              /\ stream' = StartResult(o, stream)[2]
              /\ UNCHANGED m_buffer_frames
              /\ lastTick' = [from |-> "Start", outcome |-> o]
              /\ UNCHANGED m_tracks_playing
       [] m_state = "Running" ->
            /\ m_state' = RunningResult(stream)
            /\ lastTick' = [from |-> "Running", outcome |-> "none"]
            /\ UNCHANGED <<stream, m_buffer_frames, m_tracks_playing>>
       [] m_state = "Stopped" ->
            IF StoppedReturnsEarly(stream)
              THEN /\ lastTick' = [from |-> "Stopped", outcome |-> "none"]
                   /\ UNCHANGED <<m_state, stream, m_buffer_frames, m_tracks_playing>>
              ELSE \E o \in allowed \cap {"ok", "stop_fail", "close_fail"} :
                     /\ Feasible(o, stream)
                     /\ stream' = AfterClose(o, stream)
                     /\ m_tracks_playing' = 0
                     /\ m_state' = "Idle"
                     /\ lastTick' = [from |-> "Stopped", outcome |-> o]
                     /\ UNCHANGED m_buffer_frames
  /\ UNCHANGED <<mqvars, gevars, mdvars, tkvars, m_message_queue, eq_stopped, m_running, m_thread, cpc, m_device_id,
                 m_channels, m_sample_rate, m_total_frames_processed, lastCall, lastHandled,
                 issued>>

\* run(), lines 130-143: stop and close the stream, then _run() returns
WorkerShutdown(w) ==
  /\ wpc[w] = "shutdown"
  /\ wpc' = [wpc EXCEPT ![w] = "done"]
  /\ \E o \in {"ok", "stop_fail", "close_fail"} :
       /\ Feasible(o, stream)
       /\ stream' = AfterClose(o, stream)
  /\ UNCHANGED <<mqvars, gevars, mdvars, tkvars, m_message_queue, eq_stopped, m_running, m_thread, cpc, m_state,
                 paramvars, statvars, histvars>>

\* process_audio(): the render callback of a running stream
AudioCallback ==
  /\ stream = "running"
  /\ m_total_frames_processed < MaxCallbacks * DefaultParams[3]
  /\ m_tracks_playing' = 1
  /\ m_total_frames_processed' = m_total_frames_processed + m_buffer_frames
  /\ UNCHANGED <<mqvars, gevars, mdvars, tkvars, ievars, m_state, paramvars, stream, histvars>>

\* the transport's stream stops running by itself
StreamEnds ==
  /\ stream = "running"
  /\ stream' = "open"
  /\ UNCHANGED <<mqvars, gevars, mdvars, tkvars, ievars, m_state, paramvars, statvars, histvars>>

WorkerStep(w, allowed) ==
  \/ WorkerReady(w)
  \/ WorkerCheck(w)
  \/ WorkerHandle(w)
  \/ WorkerUpdate(w, allowed)
  \/ WorkerShutdown(w)

NextAE ==
  \/ StartThread
  \/ StartJoin
  \/ StartWait
  \/ StopThread
  \/ StopThreadFinish
  \/ \E msg \in AudioMessages : ClientPush(msg)
  \/ \E w \in Workers : WorkerStep(w, Outcomes)
  \/ AudioCallback
  \/ StreamEnds

\* a caller that issues Play when it sees Idle and Stop when it sees Running,
\* one command at a time (as the tests do: play, wait, check, stop, wait, check)
Pending == {m_message_queue[i].command : i \in 1..Len(m_message_queue)}

SeqClientPush(msg) ==
  /\ msg.command = "Play" => (m_state = "Idle" /\ Pending \cap {"Play", "Stop"} = {})
  /\ msg.command = "Stop" => (m_state = "Running" /\ Pending \cap {"Play", "Stop"} = {})
  /\ issued < MaxCommands
  /\ issued' = issued + 1
  /\ PushMessage(msg)
  /\ UNCHANGED <<mqvars, gevars, mdvars, tkvars, eq_stopped, m_running, m_thread, wpc, cpc, m_state, paramvars,
                 statvars, stream, lastCall, lastHandled, lastTick>>

\* a caller that calls play() whenever get_state() returns Idle, whatever the
\* queue holds
PlayWhenIdle ==
  /\ m_state = "Idle"
  /\ issued < MaxCommands
  /\ issued' = issued + 1
  /\ PushMessage(Msg("Play"))
  /\ UNCHANGED <<mqvars, gevars, mdvars, tkvars, eq_stopped, m_running, m_thread, wpc, cpc, m_state, paramvars,
                 statvars, stream, lastCall, lastHandled, lastTick>>

\* the scenario of the Play and Stop tests: the engine is started and not
\* stopped, the transport calls succeed
NextSeq ==
  \/ StartThread
  \/ StartWait
  \/ \E msg \in AudioMessages : SeqClientPush(msg)
  \/ \E w \in Workers : WorkerReady(w) \/ WorkerCheck(w) \/ WorkerHandle(w)
                          \/ WorkerUpdate(w, {"ok"})
  \/ AudioCallback
  \/ StreamEnds

\* callers that push Play and Stop and then call stop_thread() on the started
\* engine, no command being pushed while stop_thread() waits; the transport
\* calls succeed
NextStop ==
  \/ StartThread
  \/ StartWait
  \/ StopThread
  \/ StopThreadFinish
  \/ \E c \in {"Play", "Stop"} : cpc = "idle" /\ ClientPush(Msg(c))
  \/ \E w \in Workers : WorkerStep(w, {"ok"})

(* =============== IEngine<T> in the CoreEngine and MidiEngine ============ *)

\* the two engines that use IEngine<T>::start_thread / stop_thread unchanged;
\* each is started once per process (cli.cpp, 27), restart is modelled on the
\* AudioEngine above
Engines == {"Core", "Midi"}

InitGE ==
  /\ e_queue = [e \in Engines |-> <<>>]
  /\ e_qstopped = [e \in Engines |-> FALSE]
  /\ e_running = [e \in Engines |-> FALSE]
  /\ e_thread = [e \in Engines |-> NoWorker]
  /\ e_wpc = [e \in Engines |-> "none"]
  /\ e_cpc = [e \in Engines |-> "idle"]
  /\ e_pushed = [e \in Engines |-> 0]
  /\ e_handled = [e \in Engines |-> <<>>]
  /\ e_lastCall = [e \in Engines |-> "none"]

\* start_thread(), lines 25-29: the early return, or the store of m_running
\* and the new std::jthread running _run()
EStartThread(e) ==
  /\ e_cpc[e] = "idle"
  /\ IF AlreadyRunning(e_running[e])
       THEN /\ e_lastCall' = [e_lastCall EXCEPT ![e] = "start_again"]
            /\ UNCHANGED <<e_running, e_thread, e_wpc, e_cpc>>
       ELSE /\ e_thread[e] = NoWorker
            /\ e_running' = [e_running EXCEPT ![e] = TRUE]
            /\ e_thread' = [e_thread EXCEPT ![e] = Owned]
            /\ e_wpc' = [e_wpc EXCEPT ![e] = "spawned"]
            /\ e_cpc' = [e_cpc EXCEPT ![e] = "start_wait"]
            /\ UNCHANGED e_lastCall
  /\ UNCHANGED <<mqvars, aevars, mdvars, tkvars, e_queue, e_qstopped, e_pushed, e_handled>>

\* start_thread(), lines 32-41: while (!m_running.load()) ...; the loop is
\* left as soon as m_running is seen true
EStartWait(e) ==
  /\ e_cpc[e] = "start_wait"
  /\ e_running[e]
  /\ e_cpc' = [e_cpc EXCEPT ![e] = "idle"]
  /\ e_lastCall' = [e_lastCall EXCEPT ![e] = "start"]
  /\ UNCHANGED <<mqvars, aevars, mdvars, tkvars, e_queue, e_qstopped, e_running, e_thread, e_wpc,
                 e_pushed, e_handled>>

\* stop_thread(), lines 46-48: the early return, or m_running.store(false)
EStopThread(e) ==
  /\ e_cpc[e] = "idle"
  /\ IF ~e_running[e]
       THEN /\ e_lastCall' = [e_lastCall EXCEPT ![e] = "stop_noop"]
            /\ UNCHANGED <<e_running, e_cpc>>
       ELSE /\ e_running' = [e_running EXCEPT ![e] = FALSE]
            /\ e_cpc' = [e_cpc EXCEPT ![e] = "stop_set"]
            /\ UNCHANGED e_lastCall
  /\ UNCHANGED <<mqvars, aevars, mdvars, tkvars, e_queue, e_qstopped, e_thread, e_wpc, e_pushed,
                 e_handled>>

\* stop_thread(), line 49: m_message_queue.stop(), first half
EStopSet(e) ==
  /\ e_cpc[e] = "stop_set"
  /\ e_qstopped' = [e_qstopped EXCEPT ![e] = TRUE]
  /\ e_cpc' = [e_cpc EXCEPT ![e] = "stop_notify"]
  /\ UNCHANGED <<mqvars, aevars, mdvars, tkvars, e_queue, e_running, e_thread, e_wpc, e_pushed,
                 e_handled, e_lastCall>>

\* stop_thread(), line 49: m_message_queue.stop(), notify_all; then it returns
EStopNotify(e) ==
  /\ e_cpc[e] = "stop_notify"
  /\ e_wpc' = [e_wpc EXCEPT ![e] = IF @ = "pop_wait" THEN "pop_woken" ELSE @]
  /\ e_cpc' = [e_cpc EXCEPT ![e] = "idle"]
  /\ e_lastCall' = [e_lastCall EXCEPT ![e] = "stop"]
  /\ UNCHANGED <<mqvars, aevars, mdvars, tkvars, e_queue, e_qstopped, e_running, e_thread, e_pushed,
                 e_handled>>

\* push_message(): m_message_queue.push(msg), which notifies one waiting thread
EPush(e) ==
  /\ e_pushed[e] < MaxEnginePush
  /\ e_pushed' = [e_pushed EXCEPT ![e] = @ + 1]
  /\ e_queue' = [e_queue EXCEPT ![e] = QueuePush(@, e_pushed[e] + 1)]
  /\ e_wpc' = [e_wpc EXCEPT ![e] = IF @ = "pop_wait" THEN "pop_woken" ELSE @]
  /\ UNCHANGED <<mqvars, aevars, mdvars, tkvars, e_qstopped, e_running, e_thread, e_cpc, e_handled,
                 e_lastCall>>

\* _run(), lines 66-75: name the thread, m_running.store(true), enter run()
EWorkerReady(e) ==
  /\ e_wpc[e] = "spawned"
  /\ e_running' = [e_running EXCEPT ![e] = TRUE]
  /\ e_wpc' = [e_wpc EXCEPT ![e] = "check"]
  /\ UNCHANGED <<mqvars, aevars, mdvars, tkvars, e_queue, e_qstopped, e_thread, e_cpc, e_pushed,
                 e_handled, e_lastCall>>

\* mutant: the loop condition is not looked at
RunContinues_always(running) == TRUE

\* run(): while (is_running())
RunContinues(running) == running

\* the body of run()'s loop: CoreEngine calls handle_messages(), MidiEngine yields
LoopBody(e) == IF e = "Core" THEN "handle" ELSE "yield"

\* run(): the loop condition; _run() returns when it is false
EWorkerCheck(e) ==
  /\ e_wpc[e] = "check"
  /\ e_wpc' = [e_wpc EXCEPT ![e] = IF RunContinues(e_running[e]) THEN LoopBody(e) ELSE "done"]
  /\ UNCHANGED <<mqvars, aevars, mdvars, tkvars, e_queue, e_qstopped, e_running, e_thread, e_cpc,
                 e_pushed, e_handled, e_lastCall>>

\* CoreEngine::handle_messages(): one turn of while (auto m = pop_message()):
\* pop() blocks while the queue is empty and not stopped, ends the loop with
\* nullopt, or hands out the front message, which is handled
EWorkerPop(e) ==
  /\ e_wpc[e] \in {"handle", "pop_woken"}
  /\ IF PopPredicate(e_qstopped[e], e_queue[e])
       THEN IF PopIsNullopt(e_qstopped[e], e_queue[e])
              THEN /\ e_wpc' = [e_wpc EXCEPT ![e] = "sleep"]
                   /\ UNCHANGED <<e_queue, e_handled>>
              ELSE /\ e_handled' = [e_handled EXCEPT ![e] = Append(@, QueueFront(e_queue[e]))]
                   /\ e_queue' = [e_queue EXCEPT ![e] = QueuePop(@)]
                   /\ e_wpc' = [e_wpc EXCEPT ![e] = "handle"]
       ELSE /\ e_wpc' = [e_wpc EXCEPT ![e] = "pop_wait"]
            /\ UNCHANGED <<e_queue, e_handled>>
  /\ UNCHANGED <<mqvars, aevars, mdvars, tkvars, e_qstopped, e_running, e_thread, e_cpc, e_pushed,
                 e_lastCall>>

\* std::condition_variable::wait may wake spuriously
ESpuriousWake(e) ==
  /\ e_wpc[e] = "pop_wait"
  /\ e_wpc' = [e_wpc EXCEPT ![e] = "pop_woken"]
  /\ UNCHANGED <<mqvars, aevars, mdvars, tkvars, e_queue, e_qstopped, e_running, e_thread, e_cpc,
                 e_pushed, e_handled, e_lastCall>>

\* run(): sleep_for(1 ms) in the CoreEngine, yield() in the MidiEngine
EWorkerPause(e) ==
  /\ e_wpc[e] \in {"sleep", "yield"}
  /\ e_wpc' = [e_wpc EXCEPT ![e] = "check"]
  /\ UNCHANGED <<mqvars, aevars, mdvars, tkvars, e_queue, e_qstopped, e_running, e_thread, e_cpc,
                 e_pushed, e_handled, e_lastCall>>

EWorkerStep(e) ==
  \/ EWorkerReady(e)
  \/ EWorkerCheck(e)
  \/ EWorkerPop(e)
  \/ EWorkerPause(e)

NextGE ==
  \E e \in Engines :
    \/ EStartThread(e)
    \/ EStartWait(e)
    \/ EStopThread(e)
    \/ EStopSet(e)
    \/ EStopNotify(e)
    \/ EPush(e)
    \/ EWorkerStep(e)
    \/ ESpuriousWake(e)

\* a caller that makes no start_thread() call after a stop_thread()
SeqStartThread(e) ==
  /\ e_lastCall[e] \notin {"stop", "stop_noop"}
  /\ EStartThread(e)

NextGESeq ==
  \E e \in Engines :
    \/ SeqStartThread(e)
    \/ EStartWait(e)
    \/ EStopThread(e)
    \/ EStopSet(e)
    \/ EStopNotify(e)
    \/ EPush(e)
    \/ EWorkerStep(e)
    \/ ESpuriousWake(e)

(* ============== MidiEngine: input port, fan-out, Track binding ========== *)

\* port numbers callers ask for: the valid ones and one that is out of range
Ports == 0..(NumPorts - 1)
PortNumbers == 0..NumPorts
NoPort == -1         \* !isPortOpen()
NoDevice == NoPort   \* std::nullopt in Track::m_midi_input

\* the tracks: each is an Observer<MidiMessage>
Observers == 1..NumObservers

\* what RtMidiIn::openPort can do: open the port, or fail with an RtMidiError;
\* on an RtMidiIn that already has a port open it changes nothing, either
\* warning ("already_open", the call returns) or raising the error
OpenOutcomes(open) ==
  IF open = NoPort THEN {"ok", "open_fail"} ELSE {"already_open", "open_fail"}

NoMidiCall == [op |-> "none", port |-> NoPort, outcome |-> "none", result |-> "none"]

\* the MidiEngine after construction; no track is bound
InitMidi ==
  /\ port_open = NoPort
  /\ callback_set = FALSE
  /\ m_observers = <<>>
  /\ received = <<>>
  /\ delivered = <<>>
  /\ lastMidi = NoMidiCall
  /\ m_midi_input = [t \in Observers |-> NoDevice]

\* the tracks have been created and their owners hold them
InitMD ==
  /\ InitMidi
  /\ alive = Observers

\* Subject::attach(): m_observers.push_back(observer)
Attach(o) ==
  /\ o \in alive
  /\ Len(m_observers) < NumObservers
  /\ m_observers' = Append(m_observers, o)
  /\ UNCHANGED <<mqvars, aevars, gevars, tkvars, port_open, callback_set, alive, received, delivered,
                 lastMidi, m_midi_input>>

\* Subject::detach(): erase every entry whose lock() is the observer; an
\* expired entry locks to nullptr and stays
Detach(o) ==
  /\ o \in alive
  /\ m_observers' = SelectSeq(m_observers, LAMBDA x : x # o)
  /\ UNCHANGED <<mqvars, aevars, gevars, tkvars, port_open, callback_set, alive, received, delivered,
                 lastMidi, m_midi_input>>

\* the last shared_ptr to a track goes away (~Track() = default: no detach,
\* no close_input_port)
DestroyObserver(o) ==
  /\ o \in alive
  /\ alive' = alive \ {o}
  /\ UNCHANGED <<mqvars, aevars, gevars, tkvars, port_open, callback_set, m_observers, received,
                 delivered, lastMidi, m_midi_input>>

\* Subject::notify(): the update() calls it makes, in the order of m_observers,
\* skipping the entries whose weak_ptr no longer locks
NotifyUpdates(observers, live, data) ==
  LET targets == SelectSeq(observers, LAMBDA x : x \in live)
  IN [i \in 1..Len(targets) |-> <<targets[i], data>>]

\* Subject::notify(data), called on the MidiEngine (public base class)
SubjectNotify(data) ==
  /\ Len(delivered) + Len(m_observers) <= MaxMidi
  /\ delivered' = delivered \o NotifyUpdates(m_observers, alive, data)
  /\ UNCHANGED <<mqvars, aevars, gevars, tkvars, port_open, callback_set, m_observers, alive, received,
                 lastMidi, m_midi_input>>

\* midi_callback() -> MidiEngine::receive_midi_message(): push_message(message)
MidiCallback ==
  /\ port_open # NoPort
  /\ callback_set
  /\ Len(received) < MaxMidi
  /\ LET message == Len(received) + 1 IN
       /\ received' = Append(received, message)
       /\ e_queue' = [e_queue EXCEPT !["Midi"] = QueuePush(@, message)]
  /\ e_pushed' = [e_pushed EXCEPT !["Midi"] = @ + 1]
  /\ e_wpc' = [e_wpc EXCEPT !["Midi"] = IF @ = "pop_wait" THEN "pop_woken" ELSE @]
  /\ UNCHANGED <<mqvars, aevars, tkvars, e_qstopped, e_running, e_thread, e_cpc, e_handled, e_lastCall,
                 port_open, callback_set, m_observers, alive, delivered, lastMidi, m_midi_input>>

\* MidiEngine::open_input_port(): <<port_open, callback_set, how the call ended>>
OpenResult(port_number, o, open, cb) ==
  IF port_number >= NumPorts THEN <<open, cb, "threw">>
  ELSE IF o = "ok" THEN <<port_number, TRUE, "returned">>
  ELSE IF o = "already_open" THEN <<open, TRUE, "returned">>
  ELSE <<open, cb, "returned">>

\* MidiEngine::open_input_port(port_number)
OpenInputPort(port_number) ==
  /\ \E o \in OpenOutcomes(port_open) :
       LET r == OpenResult(port_number, o, port_open, callback_set) IN
         /\ port_open' = r[1]
         /\ callback_set' = r[2]
         /\ lastMidi' = [op |-> "open", port |-> port_number,
                         outcome |-> IF port_number >= NumPorts THEN "out_of_range" ELSE o,
                         result |-> r[3]]
  /\ UNCHANGED <<mqvars, aevars, gevars, tkvars, m_observers, alive, received, delivered, m_midi_input>>

\* MidiEngine::close_input_port(): nothing if no port is open, else closePort()
ClosedPort(open) == IF open = NoPort THEN open ELSE NoPort

CloseInputPort ==
  /\ port_open' = ClosedPort(port_open)
  /\ lastMidi' = [op |-> "close", port |-> port_open, outcome |-> "ok", result |-> "returned"]
  /\ UNCHANGED <<mqvars, aevars, gevars, tkvars, callback_set, m_observers, alive, received, delivered,
                 m_midi_input>>

\* Track::has_midi_input()
HasMidiInput(t) == m_midi_input[t] # NoDevice

\* Track::add_midi_device_input(device): throws if the slot is set, else stores
\* the device
AddMidiDeviceInput(t, device) ==
  /\ t \in alive
  /\ IF HasMidiInput(t)
       THEN /\ lastMidi' = [op |-> "bind", port |-> device, outcome |-> "bound", result |-> "threw"]
            /\ UNCHANGED m_midi_input
       ELSE /\ lastMidi' = [op |-> "bind", port |-> device, outcome |-> "ok", result |-> "returned"]
            /\ m_midi_input' = [m_midi_input EXCEPT ![t] = device]
  /\ UNCHANGED <<mqvars, aevars, gevars, tkvars, port_open, callback_set, m_observers, alive, received,
                 delivered>>

\* Track::remove_midi_input(): clear the slot, MidiEngine::close_input_port()
RemoveMidiInput(t) ==
  /\ t \in alive
  /\ m_midi_input' = [m_midi_input EXCEPT ![t] = NoDevice]
  /\ port_open' = ClosedPort(port_open)
  /\ lastMidi' = [op |-> "unbind", port |-> port_open, outcome |-> "ok", result |-> "returned"]
  /\ UNCHANGED <<mqvars, aevars, gevars, tkvars, callback_set, m_observers, alive, received, delivered>>

\* Track::add_midi_input(device_id) of coreengine/trackmanager/src/track.cpp:
\* throws if the slot is set or the device does not exist, else stores the
\* device and calls MidiEngine::open_input_port(device_id)
AddMidiInput(t, device_id) ==
  /\ t \in alive
  /\ IF HasMidiInput(t) \/ device_id \notin Ports
       THEN /\ lastMidi' = [op |-> "bind", port |-> device_id,
                            outcome |-> IF HasMidiInput(t) THEN "bound" ELSE "out_of_range",
                            result |-> "threw"]
            /\ UNCHANGED <<m_midi_input, port_open, callback_set>>
       ELSE \E o \in OpenOutcomes(port_open) :
              LET r == OpenResult(device_id, o, port_open, callback_set) IN
                /\ m_midi_input' = [m_midi_input EXCEPT ![t] = device_id]
                /\ port_open' = r[1]
                /\ callback_set' = r[2]
                /\ lastMidi' = [op |-> "bind", port |-> device_id, outcome |-> o,
                                result |-> r[3]]
  /\ UNCHANGED <<mqvars, aevars, gevars, tkvars, m_observers, alive, received, delivered>>

\* MIDI inputs bound to and unbound from the tracks, the binds opening the port
NextBind ==
  \/ \E t \in Observers : \E device_id \in PortNumbers : AddMidiInput(t, device_id)
  \/ \E t \in Observers : RemoveMidiInput(t)

NextMD ==
  \/ \E o \in Observers : Attach(o) \/ Detach(o) \/ DestroyObserver(o)
  \/ \E data \in 1..MaxMidi : SubjectNotify(data)
  \/ MidiCallback
  \/ \E port_number \in PortNumbers : OpenInputPort(port_number)
  \/ CloseInputPort
  \/ \E t \in Observers : \E device \in Ports : AddMidiDeviceInput(t, device)
  \/ \E t \in Observers : RemoveMidiInput(t)

(* ======================= Track: the binding slots ====================== *)

\* the track whose bindings the callers change: the first one, as in the tests
TestTrack == 1
BoundTracks == {TestTrack}

\* the audio devices the DeviceManager enumerates: the default input device
\* (no output channels) and the default output device (no input channels)
AudioDevices ==
  {[id |-> DefaultDevice, input_channels |-> 2, output_channels |-> 0],
   [id |-> TestDevice, input_channels |-> 0, output_channels |-> 2]}

\* a device id that no device has
InvalidDeviceId == 9999
AudioDeviceIds == {d.id : d \in AudioDevices} \cup {InvalidDeviceId}

\* the WAV files callers bind
WavFiles == 1..NumFiles

\* AudioIOVariant: std::nullopt, an AudioDevice or a WavFilePtr
NoAudio == [kind |-> "none", id |-> 0]

\* mutant: the variant holds the default device whatever device is bound
DeviceIO_default(device) == [kind |-> "device", id |-> DefaultDevice]

DeviceIO(device) == [kind |-> "device", id |-> device.id]

FileIO(wav_file) == [kind |-> "file", id |-> wav_file]

NoBind == [op |-> "none", track |-> 0, result |-> "none"]
BindCall(op, t, threw) ==
  [op |-> op, track |-> t, result |-> IF threw THEN "threw" ELSE "returned"]

\* Track::Track(): the three slots kept here are std::nullopt
InitTrack ==
  /\ m_audio_input = [t \in Observers |-> NoAudio]
  /\ m_audio_output = [t \in Observers |-> NoAudio]
  /\ m_midi_output = [t \in Observers |-> NoDevice]
  /\ lastBind = NoBind
  /\ track_queue = <<>>
  /\ updates = <<>>
  /\ handled = <<>>
  /\ hpc = "idle"
  /\ lastPop = [id |-> 0, type |-> "none"]

\* Track::has_audio_input()
HasAudioInput(t) == m_audio_input[t].kind # "none"

\* Track::has_audio_output()
HasAudioOutput(t) == m_audio_output[t].kind # "none"

\* Track::has_midi_output()
HasMidiOutput(t) == m_midi_output[t] # NoDevice

\* DeviceManager::get_audio_device(id): the device with this id, or
\* std::out_of_range
GetAudioDevice(t, id) ==
  /\ t \in alive
  /\ lastBind' = BindCall("get_audio_device", t, \A d \in AudioDevices : d.id # id)
  /\ UNCHANGED <<mqvars, aevars, gevars, mdvars, m_audio_input, m_audio_output, m_midi_output,
                 tmvars, rendervars, tqvars>>

\* DeviceManager::get_midi_device(id): the port with this number, or
\* std::out_of_range
GetMidiDevice(t, id) ==
  /\ t \in alive
  /\ lastBind' = BindCall("get_midi_device", t, id \notin Ports)
  /\ UNCHANGED <<mqvars, aevars, gevars, mdvars, m_audio_input, m_audio_output, m_midi_output,
                 tmvars, rendervars, tqvars>>

\* mutant: add_audio_device_input without the has_audio_input() check
AudioInputThrows_noCheck(has, device) == device.input_channels < 1

\* add_audio_device_input(), lines 23-32: the two throws
AudioInputThrows(has, device) == has \/ device.input_channels < 1

\* Track::add_audio_device_input(device)
AddAudioDeviceInput(t, device) ==
  /\ t \in alive
  /\ LET threw == AudioInputThrows(HasAudioInput(t), device) IN
       /\ m_audio_input' = IF threw THEN m_audio_input
                           ELSE [m_audio_input EXCEPT ![t] = DeviceIO(device)]
       /\ lastBind' = BindCall("add_audio_device_input", t, threw)
  /\ UNCHANGED <<mqvars, aevars, gevars, mdvars, m_audio_output, m_midi_output, tmvars,
                 rendervars, tqvars>>

\* Track::add_audio_file_input(wav_file): throws if the slot is set, else
\* stores the file
AddAudioFileInput(t, wav_file) ==
  /\ t \in alive
  /\ LET threw == HasAudioInput(t) IN
       /\ m_audio_input' = IF threw THEN m_audio_input
                           ELSE [m_audio_input EXCEPT ![t] = FileIO(wav_file)]
       /\ lastBind' = BindCall("add_audio_file_input", t, threw)
  /\ UNCHANGED <<mqvars, aevars, gevars, mdvars, m_audio_output, m_midi_output, tmvars,
                 rendervars, tqvars>>

\* Track::add_midi_file_input(midi_file): logs "(TODO)" and returns; it makes
\* no check and stores nothing
AddMidiFileInput(t) ==
  /\ t \in alive
  /\ lastBind' = BindCall("add_midi_file_input", t, FALSE)
  /\ UNCHANGED <<mqvars, aevars, gevars, mdvars, m_audio_input, m_audio_output, m_midi_output,
                 tmvars, rendervars, tqvars>>

\* mutant: add_audio_device_output accepts a device without output channels
AudioOutputThrows_anyDevice(has, device) == has

\* add_audio_device_output(), lines 83-92: the two throws
AudioOutputThrows(has, device) == has \/ device.output_channels < 1

\* Track::add_audio_device_output(device): after the checks the device is
\* stored and AudioEngine::set_output_device() pushes a SetDevice command
AddAudioDeviceOutput(t, device) ==
  /\ t \in alive
  /\ LET threw == AudioOutputThrows(HasAudioOutput(t), device) IN
       /\ lastBind' = BindCall("add_audio_device_output", t, threw)
       /\ IF threw
            THEN UNCHANGED <<m_audio_output, m_message_queue>>
            ELSE /\ m_audio_output' = [m_audio_output EXCEPT ![t] = DeviceIO(device)]
                 /\ PushMessage([command |-> "SetDevice", payload |-> <<device.id>>])
  /\ UNCHANGED <<mqvars, gevars, mdvars, eq_stopped, m_running, m_thread, wpc, cpc, m_state,
                 paramvars, statvars, stream, histvars, m_audio_input, m_midi_output, tmvars,
                 rendervars, tqvars>>

\* Track::add_midi_device_output(device): throws if the slot is set, else
\* stores the device
AddMidiDeviceOutput(t, device) ==
  /\ t \in alive
  /\ LET threw == HasMidiOutput(t) IN
       /\ m_midi_output' = IF threw THEN m_midi_output
                           ELSE [m_midi_output EXCEPT ![t] = device]
       /\ lastBind' = BindCall("add_midi_device_output", t, threw)
  /\ UNCHANGED <<mqvars, aevars, gevars, mdvars, m_audio_input, m_audio_output, tmvars,
                 rendervars, tqvars>>

\* Track::remove_audio_input()
RemoveAudioInput(t) ==
  /\ t \in alive
  /\ m_audio_input' = [m_audio_input EXCEPT ![t] = NoAudio]
  /\ lastBind' = BindCall("remove_audio_input", t, FALSE)
  /\ UNCHANGED <<mqvars, aevars, gevars, mdvars, m_audio_output, m_midi_output, tmvars,
                 rendervars, tqvars>>

\* Track::remove_audio_output()
RemoveAudioOutput(t) ==
  /\ t \in alive
  /\ m_audio_output' = [m_audio_output EXCEPT ![t] = NoAudio]
  /\ lastBind' = BindCall("remove_audio_output", t, FALSE)
  /\ UNCHANGED <<mqvars, aevars, gevars, mdvars, m_audio_input, m_midi_output, tmvars,
                 rendervars, tqvars>>

\* Track::remove_midi_output()
RemoveMidiOutput(t) ==
  /\ t \in alive
  /\ m_midi_output' = [m_midi_output EXCEPT ![t] = NoDevice]
  /\ lastBind' = BindCall("remove_midi_output", t, FALSE)
  /\ UNCHANGED <<mqvars, aevars, gevars, mdvars, m_audio_input, m_audio_output, tmvars,
                 rendervars, tqvars>>

\* the bind, lookup and remove calls of one track
TrackCall(t) ==
  \/ \E id \in AudioDeviceIds : GetAudioDevice(t, id)
  \/ \E id \in PortNumbers : GetMidiDevice(t, id)
  \/ \E device \in AudioDevices : AddAudioDeviceInput(t, device)
  \/ \E wav_file \in WavFiles : AddAudioFileInput(t, wav_file)
  \/ \E device \in Ports : AddMidiDeviceInput(t, device)
  \/ AddMidiFileInput(t)
  \/ \E device \in AudioDevices : AddAudioDeviceOutput(t, device)
  \/ \E device \in Ports : AddMidiDeviceOutput(t, device)
  \/ RemoveAudioInput(t)
  \/ RemoveMidiInput(t)
  \/ RemoveAudioOutput(t)
  \/ RemoveMidiOutput(t)


(* ============================ TrackManager ============================= *)

NoTM == [op |-> "none", index |-> 0, result |-> "none", value |-> 0]

\* TrackManager(): no tracks; the callers hold the tracks that exist already
InitTM ==
  /\ m_tracks = <<>>
  /\ held = alive
  /\ lastTM = NoTM

\* the tracks the vector refers to
Managed(tracks) == {tracks[i] : i \in 1..Len(tracks)}

\* the Track objects left once the shared_ptrs of `dropped` are gone: a track
\* lives as long as the vector or a caller refers to it
Surviving(live, dropped, tracks, refs) == live \ (dropped \ (Managed(tracks) \cup refs))

\* mutant: the vector's last element is erased whatever the index
Erase_last(tracks, index) == SubSeq(tracks, 1, Len(tracks) - 1)

\* m_tracks.erase(m_tracks.begin() + index)
Erase(tracks, index) ==
  SubSeq(tracks, 1, index) \o SubSeq(tracks, index + 2, Len(tracks))

\* mutant: get_track and remove_track accept index == size
IndexOutOfRange_offByOne(index, tracks) == index > Len(tracks)

\* remove_track() and get_track(): if (index >= m_tracks.size()) throw
IndexOutOfRange(index, tracks) == index >= Len(tracks)

\* TrackManager::add_track(): make_shared<Track>() (all four slots
\* std::nullopt), push_back, return size() - 1
AddTrack ==
  /\ alive # Observers
  /\ LET new_track == CHOOSE t \in Observers \ alive : \A u \in Observers \ alive : t <= u IN
       /\ alive' = alive \cup {new_track}
       /\ m_audio_input' = [m_audio_input EXCEPT ![new_track] = NoAudio]
       /\ m_midi_input' = [m_midi_input EXCEPT ![new_track] = NoDevice]
       /\ m_audio_output' = [m_audio_output EXCEPT ![new_track] = NoAudio]
       /\ m_midi_output' = [m_midi_output EXCEPT ![new_track] = NoDevice]
       /\ m_tracks' = Append(m_tracks, new_track)
  /\ lastTM' = [op |-> "add_track", index |-> 0, result |-> "returned",
                value |-> Len(m_tracks') - 1]
  /\ UNCHANGED <<mqvars, aevars, gevars, port_open, callback_set, m_observers, received,
                 delivered, lastMidi, lastBind, held, rendervars, tqvars>>

\* TrackManager::remove_track(index)
RemoveTrack(index) ==
  /\ IF IndexOutOfRange(index, m_tracks)
       THEN /\ lastTM' = [op |-> "remove_track", index |-> index, result |-> "threw",
                          value |-> 0]
            /\ UNCHANGED <<m_tracks, alive>>
       ELSE /\ m_tracks' = Erase(m_tracks, index)
            /\ alive' = Surviving(alive, {m_tracks[index + 1]}, m_tracks', held)
            /\ lastTM' = [op |-> "remove_track", index |-> index, result |-> "returned",
                          value |-> 0]
  /\ UNCHANGED <<mqvars, aevars, gevars, port_open, callback_set, m_observers, received,
                 delivered, lastMidi, m_midi_input, trackvars, held, rendervars, tqvars>>

\* TrackManager::get_track(index): the caller gets a TrackPtr to the track
GetTrack(index) ==
  /\ IF IndexOutOfRange(index, m_tracks)
       THEN /\ lastTM' = [op |-> "get_track", index |-> index, result |-> "threw",
                          value |-> 0]
            /\ UNCHANGED held
       ELSE /\ held' = held \cup {m_tracks[index + 1]}
            /\ lastTM' = [op |-> "get_track", index |-> index, result |-> "returned",
                          value |-> m_tracks[index + 1]]
  /\ UNCHANGED <<mqvars, aevars, gevars, mdvars, trackvars, m_tracks, rendervars, tqvars>>

\* TrackManager::clear_tracks(): m_tracks.clear()
ClearTracks ==
  /\ m_tracks' = <<>>
  /\ alive' = Surviving(alive, Managed(m_tracks), m_tracks', held)
  /\ lastTM' = [op |-> "clear_tracks", index |-> 0, result |-> "returned", value |-> 0]
  /\ UNCHANGED <<mqvars, aevars, gevars, port_open, callback_set, m_observers, received,
                 delivered, lastMidi, m_midi_input, trackvars, held, rendervars, tqvars>>

\* a caller lets go of a TrackPtr it got from get_track()
ReleaseTrack(t) ==
  /\ t \in held
  /\ held' = held \ {t}
  /\ alive' = Surviving(alive, {t}, m_tracks, held')
  /\ UNCHANGED <<mqvars, aevars, gevars, port_open, callback_set, m_observers, received,
                 delivered, lastMidi, m_midi_input, trackvars, m_tracks, lastTM, rendervars, tqvars>>

\* the life of one track: a caller that has one track at a time creates it,
\* gets a TrackPtr, binds and unbinds, and lets go of it
NextTrack ==
  \/ (alive = {} /\ AddTrack)
  \/ GetTrack(0)
  \/ ClearTracks
  \/ ReleaseTrack(TestTrack)
  \/ \E t \in held \cap BoundTracks : TrackCall(t)

\* indices callers pass: the valid ones and those past the end
Indices == 0..NumObservers

NextTM ==
  \/ AddTrack
  \/ \E index \in Indices : RemoveTrack(index)
  \/ \E index \in Indices : GetTrack(index)
  \/ ClearTracks
  \/ \E t \in Observers : ReleaseTrack(t)
  \/ \E t \in held \cap BoundTracks : \E wav_file \in WavFiles : AddAudioFileInput(t, wav_file)
  \/ \E t \in held \cap BoundTracks : \E device \in Ports : AddMidiDeviceOutput(t, device)

(* ========= AudioInterface::process_audio: the render callback ========== *)

\* WavFile(): the read position is at the start of the file
InitRender ==
  /\ file_left = [f \in WavFiles |-> FileBuffers * DefaultParams[3]]
  /\ rpc = "idle"
  /\ r_index = 0
  /\ r_stops = 0

\* WavFile::read_frames(): sf_readf_float returns the frames it could read
ReadFrames(left, frames_to_read) == IF left < frames_to_read THEN left ELSE frames_to_read

\* mutant: end of file is not noticed
ShortRead_never(read_frames, frames) == FALSE

\* get_next_audio_frame(), line 333: if (read_frames != frames)
ShortRead(read_frames, frames) == read_frames # frames

\* audio_callback() -> process_audio(), lines 170-197: no test tone, the
\* buffer is filled with silence, i = 0
RenderBegin ==
  /\ stream = "running"
  /\ rpc = "idle"
  /\ r_stops < MaxStops
  /\ rpc' = "loop"
  /\ r_index' = 0
  /\ UNCHANGED <<mqvars, aevars, gevars, mdvars, trackvars, tmvars, tqvars, file_left, r_stops>>

\* process_audio(), line 197: i < track_manager.get_track_count(); when the
\* loop ends the callback returns
RenderLoop ==
  /\ rpc = "loop"
  /\ rpc' = IF r_index < Len(m_tracks) THEN "get" ELSE "idle"
  /\ UNCHANGED <<mqvars, aevars, gevars, mdvars, trackvars, tmvars, tqvars, file_left, r_index,
                 r_stops>>

\* process_audio(), lines 199-204: get_track(i), which throws if the index
\* is out of range by now (audio_callback is noexcept: std::terminate), and
\* Track::get_next_audio_frame() if the track has an audio output: a WAV file
\* input is read, and a short read calls stop(), which pushes a Stop command
RenderTrack ==
  /\ rpc = "get"
  /\ IF IndexOutOfRange(r_index, m_tracks)
       THEN /\ rpc' = "threw"
            /\ UNCHANGED <<r_index, file_left, m_message_queue, r_stops>>
       ELSE LET track == m_tracks[r_index + 1] IN
              /\ rpc' = "loop"
              /\ r_index' = r_index + 1
              /\ IF HasAudioOutput(track) /\ m_audio_input[track].kind = "file"
                   THEN LET wav_file == m_audio_input[track].id
                            read_frames == ReadFrames(file_left[wav_file], m_buffer_frames)
                        IN /\ file_left' = [file_left EXCEPT ![wav_file] = @ - read_frames]
                           /\ IF ShortRead(read_frames, m_buffer_frames)
                                THEN /\ PushMessage(Msg("Stop"))
                                     /\ r_stops' = r_stops + 1
                                ELSE UNCHANGED <<m_message_queue, r_stops>>
                   ELSE UNCHANGED <<file_left, m_message_queue, r_stops>>
  /\ UNCHANGED <<mqvars, gevars, mdvars, eq_stopped, m_running, m_thread, wpc, cpc, m_state,
                 paramvars, statvars, stream, histvars, trackvars, tmvars, tqvars>>

Render == RenderBegin \/ RenderLoop \/ RenderTrack

\* the worker's tick while a stream may be rendering: a tick that stops or
\* closes the stream (update_state_stopped(), lines 287-307) returns from
\* the transport once the callback in progress has returned
RenderTick(w) ==
  /\ WorkerUpdate(w, {"ok"})
  /\ stream' # stream => rpc = "idle"

\* the worker's steps during playback
PlaybackWorker(w) == WorkerReady(w) \/ WorkerCheck(w) \/ WorkerHandle(w) \/ RenderTick(w)

\* a session's setup, made before start_thread(): tracks are added and the
\* first one gets a WAV file input and an audio output device
SetupCall ==
  /\ lastCall = "none"
  /\ cpc = "idle"
  /\ \/ AddTrack
     \/ GetTrack(0)
     \/ \E t \in held \cap BoundTracks :
          \E wav_file \in WavFiles : AddAudioFileInput(t, wav_file)
     \/ \E t \in held \cap BoundTracks :
          \E device \in AudioDevices : AddAudioDeviceOutput(t, device)

\* playback: after the setup the engine is started and not stopped, the
\* caller issues Play whenever it sees Idle and never Stop, the transport calls
\* succeed and the stream's callback renders the tracks
NextPlayback ==
  \/ SetupCall
  \/ StartThread
  \/ StartWait
  \/ PlayWhenIdle
  \/ \E w \in Workers : PlaybackWorker(w)
  \/ Render

\* playback while another thread adds, removes and clears tracks
NextRace ==
  \/ NextPlayback
  \/ AddTrack
  \/ \E index \in Indices : RemoveTrack(index)
  \/ ClearTracks

(* ================= Track: the queue of MIDI messages =================== *)

\* the cases of the switch in handle_midi_message(), lines 255-275
MidiTypes == {"NoteOn", "NoteOff", "ControlChange", "Other"}

\* Track::update(const Midi::MidiMessage&): lock; m_message_queue.push(message)
TrackUpdate(type) ==
  /\ Len(updates) < MaxMidi
  /\ LET message == [id |-> Len(updates) + 1, type |-> type] IN
       /\ track_queue' = QueuePush(track_queue, message)
       /\ updates' = Append(updates, message)
  /\ UNCHANGED <<mqvars, aevars, gevars, mdvars, trackvars, tmvars, rendervars, handled, hpc,
                 lastPop>>

\* Track::handle_midi_message(), lines 245-253, under the mutex: return if
\* the queue is empty, else take the front message
HandleMidiMessage ==
  /\ hpc = "idle"
  /\ IF track_queue = <<>>
       THEN /\ lastPop' = [id |-> 0, type |-> "empty"]
            /\ UNCHANGED <<track_queue, handled, hpc>>
       ELSE /\ lastPop' = QueueFront(track_queue)
            /\ handled' = Append(handled, QueueFront(track_queue))
            /\ track_queue' = QueuePop(track_queue)
            /\ hpc' = "dispatch"
  /\ UNCHANGED <<mqvars, aevars, gevars, mdvars, trackvars, tmvars, rendervars, updates>>

\* Track::handle_midi_message(), lines 255-275: the switch on message.type,
\* which logs the message, outside the mutex
HandleDispatch ==
  /\ hpc = "dispatch"
  /\ lastPop.type \in MidiTypes
  /\ hpc' = "idle"
  /\ UNCHANGED <<mqvars, aevars, gevars, mdvars, trackvars, tmvars, rendervars, track_queue,
                 updates, handled, lastPop>>

\* the fan-out thread calling update() and another thread calling
\* handle_midi_message()
NextTQ ==
  \/ \E type \in MidiTypes : TrackUpdate(type)
  \/ HandleMidiMessage
  \/ HandleDispatch

(* ============== CoreEngine: start and stop of the engine stack ========= *)

\* CoreEngine::start_thread(), line 10: IEngine<CoreEngineMessage>::start_thread()
CoreStartCore ==
  /\ \A e \in Engines : e_lastCall[e] = "none"
  /\ lastCall = "none"
  /\ EStartThread("Core")

\* CoreEngine::start_thread(), line 11: AudioEngine::instance().start_thread()
CoreStartAudio ==
  /\ e_lastCall["Core"] = "start"
  /\ lastCall = "none"
  /\ StartThread

\* CoreEngine::start_thread(), line 12: MidiEngine::instance().start_thread()
CoreStartMidi ==
  /\ lastCall = "start"
  /\ e_lastCall["Midi"] = "none"
  /\ EStartThread("Midi")

\* CoreEngine::stop_thread(), line 17: IEngine<CoreEngineMessage>::stop_thread()
CoreStopCore ==
  /\ e_lastCall["Core"] = "start"
  /\ e_lastCall["Midi"] = "start"
  /\ EStopThread("Core")

\* CoreEngine::stop_thread(), line 18: AudioEngine::instance().stop_thread()
CoreStopAudio ==
  /\ e_lastCall["Core"] \in {"stop", "stop_noop"}
  /\ lastCall = "start"
  /\ StopThread

\* CoreEngine::stop_thread(), line 19: MidiEngine::instance().stop_thread()
CoreStopMidi ==
  /\ lastCall = "stop"
  /\ e_lastCall["Midi"] = "start"
  /\ EStopThread("Midi")

\* one start_thread() and one stop_thread() of the CoreEngine, each call
\* running its three calls in program order, and the three workers
NextCore ==
  \/ CoreStartCore
  \/ CoreStartAudio
  \/ CoreStartMidi
  \/ CoreStopCore
  \/ CoreStopAudio
  \/ CoreStopMidi
  \/ StartWait
  \/ StopThreadFinish
  \/ \E e \in Engines : EStartWait(e) \/ EStopSet(e) \/ EStopNotify(e)
  \/ \E e \in Engines : EWorkerStep(e) \/ ESpuriousWake(e)
  \/ \E w \in Workers : WorkerStep(w, {"ok"})

\* after construction, with the tracks created and held by their owners
Init == InitMQ /\ InitAE /\ InitGE /\ InitMD /\ InitTrack /\ InitTM /\ InitRender

\* after construction, before any track is created
InitEmpty ==
  InitMQ /\ InitAE /\ InitGE /\ InitMidi /\ alive = {} /\ InitTrack /\ InitTM /\ InitRender

vars == <<mqvars, aevars, gevars, tkvars, mdvars, tkvars>>

SpecMQ == Init /\ [][NextMQ]_vars

\* a runnable thread is eventually scheduled: the notifier finishes stop(),
\* and a consumer that was woken re-acquires the mutex
SpecMQFair ==
  /\ SpecMQ
  /\ \A t \in Threads : WF_vars(StopNotify(t)) /\ WF_vars(PopWake(t))

\* MIDI input bindings of the tracks that open and close the shared port
SpecBind == Init /\ [][NextBind]_vars

\* a track's MIDI queue
SpecTQ == Init /\ [][NextTQ]_vars

\* blocked consumers and producers; a woken consumer re-acquires the mutex
SpecWake ==
  /\ Init /\ [][NextWake]_vars
  /\ \A t \in Threads : WF_vars(PopWake(t))

SpecAE == Init /\ [][NextAE]_vars

\* stop_thread() after calls of play() and stop(); the worker is scheduled
\* fairly and the caller of stop_thread() goes on once the state is Idle
SpecStop ==
  /\ Init /\ [][NextStop]_vars
  /\ \A w \in Workers : WF_vars(WorkerStep(w, {"ok"}))
  /\ WF_vars(StopThreadFinish)

\* push_message() by a caller that has made no stop_thread() call yet, as
\* CLI::stop() pushes Shutdown right before it calls stop_thread()
PushBeforeStop(e) ==
  /\ e_lastCall[e] \notin {"stop", "stop_noop"}
  /\ e_cpc[e] \notin {"stop_set", "stop_notify"}
  /\ EPush(e)

\* an engine that is started, sent messages and then stopped, once
NextDeliver ==
  \E e \in Engines :
    \/ SeqStartThread(e)
    \/ EStartWait(e)
    \/ PushBeforeStop(e)
    \/ EStopThread(e)
    \/ EStopSet(e)
    \/ EStopNotify(e)
    \/ EWorkerStep(e)
    \/ ESpuriousWake(e)

SpecDeliver == Init /\ [][NextDeliver]_vars

SpecGE == Init /\ [][NextGE]_vars

\* a runnable thread is eventually scheduled: the worker goes on in _run() and
\* run(), and the thread inside stop_thread() finishes the call
SpecGEFair ==
  /\ Init /\ [][NextGESeq]_vars
  /\ \A e \in Engines :
       WF_vars(EWorkerStep(e)) /\ WF_vars(EStopSet(e)) /\ WF_vars(EStopNotify(e))

SpecMD == Init /\ [][NextMD]_vars

\* bind, lookup and remove calls on a track, from the start of the program
SpecTrack == InitEmpty /\ [][NextTrack]_vars

\* TrackManager calls, from the start of the program
SpecTM == InitEmpty /\ [][NextTM]_vars

\* the engine stack started and stopped through the CoreEngine
SpecCore == Init /\ [][NextCore]_vars

\* playback of the tracks set up before the engine is started; the worker is
\* scheduled fairly and a render callback in progress runs on
SpecPlayback ==
  /\ InitEmpty /\ [][NextPlayback]_vars
  /\ \A w \in Workers : WF_vars(PlaybackWorker(w))
  /\ WF_vars(RenderLoop \/ RenderTrack)

\* playback with the TrackManager changed by another thread meanwhile
SpecRace == InitEmpty /\ [][NextRace]_vars

\* the worker thread is scheduled again and again (its loop sleeps 1 ms)
SpecSeqFair ==
  /\ Init /\ [][NextSeq]_vars
  /\ \A w \in Workers : WF_vars(WorkerStep(w, {"ok"}))

(* ======================= MessageQueue claims =========================== *)

IsPrefix(s, t) == Len(s) <= Len(t) /\ \A i \in 1..Len(s) : s[i] = t[i]

\* C1: under any interleaving of push, pop and try_pop, the returned items
\* (in removal order) are a prefix of the pushed items (in push order): no
\* item is returned twice, none is invented, and what is neither returned nor
\* queued does not exist (pushed = returned followed by queued).
C1_QueueFIFO ==
  /\ IsPrefix(popped, pushed)
  /\ \A i, j \in 1..Len(popped) : popped[i] = popped[j] => i = j
  /\ pushed = popped \o m_queue
  /\ lastRet.val # NoValue => lastRet.val = popped[Len(popped)]

C1_Witness ==
  /\ Len(popped) >= 3
  /\ \E t \in Threads : tpc[t] = "pop_wait"
  /\ lastRet.op = "try_pop"

\* C2: once stop() has set m_stopped, pop() on an empty queue returns "no
\* value" in the step that enters it (it never blocks), and every consumer
\* blocked in pop() at that time eventually returns.
C2_StopWakesConsumers ==
  /\ [][\A t \in Threads :
          /\ (m_stopped /\ m_queue = <<>> /\ PopEnter(t)) =>
                (tpc'[t] = "idle" /\ lastRet'.thread = t /\ lastRet'.val = NoValue)
          /\ (m_stopped /\ tpc'[t] = "pop_wait") => tpc[t] = "pop_wait"]_vars
  /\ \A t \in Threads :
       (m_stopped /\ tpc[t] \in {"pop_wait", "pop_woken"}) ~> (tpc[t] = "idle")

C2_Witness ==
  \E t \in blockedAtStop :
    /\ tpc[t] = "idle"
    /\ lastRet = [thread |-> t, op |-> "pop", val |-> NoValue, stopped |-> TRUE]

\* C3: a pop() that returns, returns "no value" exactly when the queue is
\* stopped and empty at that moment; otherwise it returns the front item.
C3_PopNulloptIffStoppedEmpty ==
  [][\A t \in Threads :
       ((PopEnter(t) \/ PopWake(t)) /\ tpc'[t] = "idle") =>
          /\ lastRet'.op = "pop" /\ lastRet'.thread = t
          /\ (lastRet'.val = NoValue) <=> (m_stopped /\ m_queue = <<>>)
          /\ m_queue # <<>> => lastRet'.val = Head(m_queue)]_vars

\* a pop() on a stopped, non-empty queue has returned an item
C3_Witness ==
  /\ lastRet.op = "pop"
  /\ lastRet.stopped
  /\ lastRet.val # NoValue

(* ======================== AudioEngine claims =========================== *)

WorkerAlive ==
  m_running /\ \E w \in Workers : wpc[w] \in {"spawned", "check", "drain", "update"}

Handling(w, commands) ==
  /\ WorkerHandle(w)
  /\ m_message_queue # <<>>
  /\ Head(m_message_queue).command \in commands

\* C4: with the worker running, the state Idle and a succeeding transport, a
\* queued Play leads to Running under fair scheduling of the worker, and
\* Running is entered from Start only, Idle left for Start only. The caller
\* issues one command at a time (NextSeq).
C4_PlayLeadsToRunning ==
  /\ (WorkerAlive /\ m_state = "Idle" /\ "Play" \in Pending) ~> (m_state = "Running")
  /\ [][(m_state' = "Running" /\ m_state # "Running") => m_state = "Start"]_vars
  /\ [][(m_state = "Idle" /\ m_state' # "Idle") => m_state' = "Start"]_vars

C4_Witness ==
  /\ m_state = "Running"
  /\ lastTick = [from |-> "Start", outcome |-> "ok"]
  /\ issued = 1

\* C5: with the worker running and the state Running, a queued Stop leads to
\* Idle under fair scheduling of the worker, and the state goes from Running to
\* Stopped and from Stopped to Idle only. The caller issues one command at a
\* time (NextSeq).
C5_StopLeadsToIdle ==
  /\ (WorkerAlive /\ m_state = "Running" /\ "Stop" \in Pending) ~> (m_state = "Idle")
  /\ [][(m_state = "Running" /\ m_state' # "Running") => m_state' = "Stopped"]_vars
  /\ [][(m_state = "Stopped" /\ m_state' # "Stopped") => m_state' = "Idle"]_vars

C5_Witness ==
  /\ m_state = "Stopped"
  /\ lastHandled.command = "Stop" /\ lastHandled.from = "Running"
  /\ stream = "running"

\* C6: a SetDevice or SetParams handled while the state is Start or Running
\* leaves the held device, channels, sample rate and buffer frames unchanged;
\* handled while Idle or Stopped it makes them the payload's values.
C6_SetOnlyWhenIdleOrStopped ==
  [][\A w \in Workers :
       Handling(w, {"SetDevice", "SetParams"}) =>
         LET msg == Head(m_message_queue) IN
           IF m_state \in {"Start", "Running"}
             THEN UNCHANGED paramvars
             ELSE /\ msg.command = "SetDevice" => m_device_id' = msg.payload[1]
                  /\ msg.command = "SetParams" =>
                       <<m_channels', m_sample_rate', m_buffer_frames'>> = msg.payload]_vars

\* C7: the tick after the state became Stopped, however it was entered, sets
\* the state to Idle, resets tracks_playing to 0 and (the transport calls
\* succeeding) closes the stream.
C7_StoppedIsTransient ==
  [][\A w \in Workers :
       (m_state = "Stopped" /\ WorkerUpdate(w, Outcomes)) =>
          /\ m_state' = "Idle"
          /\ m_tracks_playing' = 0
          /\ lastTick'.outcome \notin Failures => stream' = "closed"]_vars

\* C8: a Start tick in which stopping/closing the previous stream, opening or
\* starting fails ends in Idle; the transport is opened in Start ticks only,
\* and Start is entered only by handling a Play.
C8_FailureRevertsToIdle ==
  /\ [][\A w \in Workers :
          (m_state = "Start" /\ WorkerUpdate(w, Outcomes) /\ lastTick'.outcome \in Failures)
             => m_state' = "Idle"]_vars
  /\ [][(stream = "closed" /\ stream' # "closed") =>
          (m_state = "Start" /\ \E w \in Workers : WorkerUpdate(w, Outcomes))]_vars
  /\ [][(m_state # "Start" /\ m_state' = "Start") =>
          \E w \in Workers : Handling(w, {"Play"})]_vars

C8_Witness ==
  /\ lastTick = [from |-> "Start", outcome |-> "start_fail"]
  /\ m_state = "Idle"
  /\ stream = "open"

\* C9: handling Play changes the state only from Idle or Stopped, and then to
\* Start; handling Stop changes it only from Running or Start, and then to
\* Stopped; otherwise handling a command leaves the state unchanged.
C9_CommandAcceptance ==
  [][\A w \in Workers :
       Handling(w, {"Play", "Stop", "SetDevice", "SetParams"}) =>
         LET command == Head(m_message_queue).command IN
           m_state' # m_state =>
             \/ command = "Play" /\ m_state \in {"Idle", "Stopped"} /\ m_state' = "Start"
             \/ command = "Stop" /\ m_state \in {"Running", "Start"} /\ m_state' = "Stopped"]_vars

C9_Witness ==
  /\ lastHandled.command = "Stop" /\ lastHandled.from = "Start"
  /\ m_state = "Stopped"

LiveWorkers == {w \in Workers : wpc[w] \notin {"none", "done"}}

\* C10: start_thread() on a running engine returns in the same step without
\* spawning a worker or touching m_thread, and after a start_thread() that
\* followed a start_thread() exactly one worker thread of the engine exists,
\* in run() or about to enter it.
C10_StartIdempotent ==
  /\ [][(m_running /\ StartThread) =>
          (wpc' = wpc /\ m_thread' = m_thread /\ cpc' = "idle" /\ m_running')]_vars
  /\ [](lastCall = "start_again" =>
         /\ Cardinality(LiveWorkers) = 1
         /\ \A w \in LiveWorkers : wpc[w] \in {"spawned", "check", "drain", "update"})

C10_Witness ==
  /\ lastCall = "start_again"
  /\ wpc[Owned] = "drain"
  /\ eq_stopped

(* ===================== engine lifecycle claims ========================= *)

\* C11: start_thread() on an engine that is not running returns only after
\* the worker it created has stored m_running in _run(), and a worker enters
\* run() only through that store.
C11_StartupHandshake ==
  /\ [][\A e \in Engines : EStartWait(e) => e_wpc[e] # "spawned"]_vars
  /\ [][\A e \in Engines :
          (e_wpc[e] = "spawned" /\ e_wpc'[e] # "spawned") =>
             (e_running'[e] /\ e_wpc'[e] = "check")]_vars

\* C12: when stop_thread(), called on a running engine, returns, the engine's
\* worker has left run() and ended.
C12_StopThreadJoins ==
  [][\A e \in Engines : EStopNotify(e) => e_wpc'[e] = "done"]_vars

\* C13: stop_thread() on an engine that is not running changes nothing; on a
\* running engine it clears m_running and stops the queue, and after it has
\* returned (the caller making no later start_thread()) the worker eventually
\* sees is_running() false and leaves run(), under fair scheduling.
C13_CooperativeStop ==
  /\ [][\A e \in Engines :
          (~e_running[e] /\ EStopThread(e)) =>
             UNCHANGED <<e_queue, e_qstopped, e_running, e_thread, e_wpc, e_cpc>>]_vars
  /\ [][\A e \in Engines :
          /\ (e_running[e] /\ EStopThread(e)) => ~e_running'[e]
          /\ EStopNotify(e) => e_qstopped'[e]]_vars
  /\ \A e \in Engines : (e_lastCall[e] = "stop") ~> (e_wpc[e] = "done")

C15_HandleMessagesNeverBlocks ==
  /\ [](\A e \in Engines : e_wpc[e] # "pop_wait")
  /\ [][\A e \in Engines :
          (e_wpc[e] = "handle" /\ e_queue[e] = <<>> /\ EWorkerPop(e)) =>
             e_wpc'[e] = "sleep"]_vars

\* C16: once the queue has been stopped and empty, no later pop() returns an
\* item, while push() is still accepted and appends its message.
C16_NoPopAfterDrain ==
  /\ [][\A t \in Threads :
          (drained /\ (PopEnter(t) \/ PopWake(t)) /\ tpc'[t] = "idle") =>
             lastRet'.val = NoValue]_vars
  /\ [][\A t \in Threads : Push(t) => m_queue' = Append(m_queue, Len(pushed) + 1)]_vars

(* ========================= MidiEngine claims =========================== *)

\* C17: every message the transport's callback receives is passed to update()
\* exactly once for every attached observer whose target is alive, in attach
\* order, before the callback returns; expired observers are skipped.
C17_MidiFanOut ==
  [][MidiCallback =>
       delivered' = delivered \o NotifyUpdates(m_observers, alive, Len(received) + 1)]_vars

\* C18: at most one input port is open; open_input_port(m) called while a
\* port n is open either ends with port m open (n closed first) or with an
\* error to the caller.
C18_OnePortAtATime ==
  /\ [](port_open = NoPort \/ port_open \in Ports)
  /\ [][\A port_number \in PortNumbers :
          (port_open # NoPort /\ OpenInputPort(port_number)) =>
             (lastMidi'.result = "threw" \/ port_open' = port_number)]_vars

\* C19: an open_input_port that fails, the port number being out of range or
\* the transport failing to open the port, ends with an error to the caller,
\* no port open and no receive callback registered.
C19_FailedOpenReported ==
  [][\A port_number \in PortNumbers :
       (/\ port_open = NoPort
        /\ OpenInputPort(port_number)
        /\ lastMidi'.outcome \in {"out_of_range", "open_fail"}) =>
          (lastMidi'.result = "threw" /\ port_open' = NoPort /\ ~callback_set')]_vars

\* C20: after a successful bind of a MIDI device input to a track the input
\* port of that device is open; after the unbind the port is closed;
\* close_input_port with no port open changes nothing.
C20_BindingDrivesPort ==
  /\ [][\A t \in Observers : \A device \in Ports :
          (AddMidiDeviceInput(t, device) /\ lastMidi'.result = "returned") =>
             port_open' = device]_vars
  /\ [][\A t \in Observers : RemoveMidiInput(t) => port_open' = NoPort]_vars
  /\ [][(port_open = NoPort /\ CloseInputPort) =>
          UNCHANGED <<port_open, callback_set, m_observers, m_midi_input>>]_vars


(* ====================== Track and TrackManager claims =================== *)

\* C21: a bind of an audio input (device or file) on a track that has an
\* audio input, and a bind of a MIDI input (device or file) on a track that
\* has a MIDI input, is rejected with an error and leaves the binding as it
\* was.
C21_InputExclusive ==
  [][\A t \in BoundTracks :
       /\ (HasAudioInput(t) /\ (\/ \E device \in AudioDevices : AddAudioDeviceInput(t, device)
                                \/ \E wav_file \in WavFiles : AddAudioFileInput(t, wav_file)))
            => (lastBind'.result = "threw" /\ m_audio_input' = m_audio_input)
       /\ (HasMidiInput(t) /\ \E device \in Ports : AddMidiDeviceInput(t, device))
            => (lastMidi'.result = "threw" /\ m_midi_input' = m_midi_input)
       /\ (HasMidiInput(t) /\ AddMidiFileInput(t))
            => (lastBind'.result = "threw" /\ m_midi_input' = m_midi_input)]_vars

\* the four binding slots of the tracks
Slots == <<m_audio_input, m_midi_input, m_audio_output, m_midi_output>>

\* C22: a bind that meets a configuration error (an audio input device
\* without input channels, an audio output device without output channels, a
\* device id that no device has, a slot that is already bound) throws to the
\* caller, leaves the four bindings as they were, pushes no command to the
\* AudioEngine and opens no MIDI port.
C22_RejectedBindChangesNothing ==
  [][\A t \in BoundTracks :
       LET Quiet == /\ UNCHANGED Slots
                    /\ m_message_queue' = m_message_queue
                    /\ port_open' = port_open
       IN /\ \A device \in AudioDevices :
               (AddAudioDeviceInput(t, device)
                  /\ (HasAudioInput(t) \/ device.input_channels = 0))
                 => (lastBind'.result = "threw" /\ Quiet)
          /\ \A device \in AudioDevices :
               (AddAudioDeviceOutput(t, device)
                  /\ (HasAudioOutput(t) \/ device.output_channels = 0))
                 => (lastBind'.result = "threw" /\ Quiet)
          /\ \A wav_file \in WavFiles :
               (AddAudioFileInput(t, wav_file) /\ HasAudioInput(t))
                 => (lastBind'.result = "threw" /\ Quiet)
          /\ \A device \in Ports :
               (AddMidiDeviceInput(t, device) /\ HasMidiInput(t))
                 => (lastMidi'.result = "threw" /\ Quiet)
          /\ \A device \in Ports :
               (AddMidiDeviceOutput(t, device) /\ HasMidiOutput(t))
                 => (lastBind'.result = "threw" /\ Quiet)
          /\ GetAudioDevice(t, InvalidDeviceId) => (lastBind'.result = "threw" /\ Quiet)
          /\ GetMidiDevice(t, NumPorts) => (lastBind'.result = "threw" /\ Quiet)]_vars

\* an output device without output channels was rejected on a track that has
\* no audio output but other bindings
C22_Witness ==
  /\ lastBind = [op |-> "add_audio_device_output", track |-> TestTrack, result |-> "threw"]
  /\ ~HasAudioOutput(TestTrack)
  /\ HasAudioInput(TestTrack)
  /\ HasMidiInput(TestTrack)
  /\ m_message_queue = <<>>

C27_TrackSequence ==
  /\ [][AddTrack =>
          /\ Len(m_tracks') = Len(m_tracks) + 1
          /\ \A j \in 1..Len(m_tracks) : m_tracks'[j] = m_tracks[j]
          /\ m_tracks'[Len(m_tracks')] \notin alive
          /\ lastTM'.result = "returned" /\ lastTM'.value = Len(m_tracks)]_vars
  /\ [][\A index \in Indices :
          RemoveTrack(index) =>
            IF index < Len(m_tracks)
              THEN /\ lastTM'.result = "returned"
                   /\ Len(m_tracks') = Len(m_tracks) - 1
                   /\ \A j \in 1..Len(m_tracks') :
                        m_tracks'[j] = IF j <= index THEN m_tracks[j] ELSE m_tracks[j + 1]
                   /\ alive \ {m_tracks[index + 1]} \subseteq alive'
                   /\ held' = held /\ held \subseteq alive'
                   /\ UNCHANGED Slots
              ELSE lastTM'.result = "threw" /\ UNCHANGED <<m_tracks, alive, held, Slots>>]_vars
  /\ [][\A index \in Indices :
          GetTrack(index) =>
            IF index < Len(m_tracks)
              THEN /\ lastTM'.result = "returned" /\ lastTM'.value = m_tracks[index + 1]
                   /\ UNCHANGED <<m_tracks, alive, Slots>>
              ELSE lastTM'.result = "threw" /\ UNCHANGED <<m_tracks, alive, held, Slots>>]_vars
  /\ [][ClearTracks => (Len(m_tracks') = 0 /\ held' = held /\ held \subseteq alive')]_vars
  /\ [](held \subseteq alive)

\* remove_track(0) on two tracks: the track that was at index 1, which a
\* caller holds and has bound a file to, is now the only one, at index 0
C27_Witness ==
  /\ lastTM = [op |-> "remove_track", index |-> 0, result |-> "returned", value |-> 0]
  /\ m_tracks = <<TestTrack>>
  /\ TestTrack \in held
  /\ HasAudioInput(TestTrack)

(* ======================= render callback claims ======================== *)

\* C24: whatever add_track, remove_track and clear_tracks calls another
\* thread makes while the render callback runs, the callback's loop over the
\* TrackManager never throws: it never asks get_track() for an index that is
\* not below the track count.
C24_RenderNeverThrows ==
  /\ rpc # "threw"
  /\ rpc = "get" => r_index < Len(m_tracks)

\* get_next_audio_frame() on this track comes to a short read: the track has
\* an audio output and a WAV file input with less than a buffer left
Exhausted(track) ==
  /\ HasAudioOutput(track)
  /\ m_audio_input[track].kind = "file"
  /\ file_left[m_audio_input[track].id] < m_buffer_frames

\* the render callback is at get_track(i) for a track whose file is exhausted
AtExhaustedTrack ==
  /\ rpc = "get"
  /\ r_index < Len(m_tracks)
  /\ Exhausted(m_tracks[r_index + 1])

\* C23: end of playback. When the render callback comes to a track whose
\* file input is exhausted, it appends a Stop command to the engine's queue;
\* with the engine Running this leads to Idle under fair scheduling, the
\* state leaving Running only for Stopped, by a Stop command that the
\* callback enqueued (no caller issues stop()), and Stopped only for Idle.
C23_EndOfPlayback ==
  /\ [][(AtExhaustedTrack /\ rpc' # rpc)
          => /\ m_message_queue' = Append(m_message_queue, Msg("Stop"))
             /\ r_stops' = r_stops + 1]_vars
  /\ (m_state = "Running" /\ AtExhaustedTrack) ~> (m_state = "Idle")
  /\ [][(m_state = "Running" /\ m_state' # "Running")
          => /\ m_state' = "Stopped"
             /\ lastHandled'.command = "Stop"
             /\ r_stops > 0]_vars
  /\ [][(m_state = "Stopped" /\ m_state' # "Stopped") => m_state' = "Idle"]_vars

C23_Witness ==
  /\ m_state = "Idle"
  /\ r_stops > 0
  /\ lastTick = [from |-> "Stopped", outcome |-> "ok"]
  /\ issued = 1
  /\ \E f \in WavFiles : file_left[f] = 0

(* ========================= CoreEngine claims =========================== *)

\* a start_thread()/stop_thread() call on the engine has begun
AudioStartBegun == lastCall # "none" \/ cpc \in {"start_wait", "start_join"}
AudioStopBegun == lastCall = "stop" \/ cpc = "stop_wait"
EStartBegun(e) == e_lastCall[e] # "none" \/ e_cpc[e] = "start_wait"
EStopBegun(e) == e_lastCall[e] \in {"stop", "stop_noop"} \/ e_cpc[e] \in {"stop_set", "stop_notify"}
EStopReturned(e) == e_lastCall[e] \in {"stop", "stop_noop"}

\* C25: CoreEngine::start_thread starts the Core worker, then the Audio
\* Engine, then the MIDI Engine; CoreEngine::stop_thread stops the Core
\* Engine first, then the Audio Engine, then the MIDI Engine, and at its
\* return is_running() is false for all three engines.
C25_OrchestrationOrder ==
  /\ [](AudioStartBegun => e_lastCall["Core"] # "none")
  /\ [](EStartBegun("Midi") => lastCall # "none")
  /\ [](AudioStopBegun => EStopReturned("Core"))
  /\ [](EStopBegun("Midi") => lastCall = "stop")
  /\ [][(EStopReturned("Midi")' /\ ~EStopReturned("Midi"))
          => (~e_running["Core"]' /\ ~m_running' /\ ~e_running["Midi"]')]_vars

(* ================= AudioEngine state and statistics claims ============= *)

\* the arrows of the AudioEngine's state machine
Transitions ==
  {<<"Idle", "Start">>, <<"Start", "Running">>, <<"Start", "Idle">>, <<"Start", "Stopped">>,
   <<"Running", "Stopped">>, <<"Stopped", "Idle">>, <<"Stopped", "Start">>}

\* the worker threads that are inside run()'s loop, where m_state is written
InLoop == {w \in Workers : wpc[w] \in {"check", "drain", "update"}}

\* C28: the state changes only along Idle->Start, Start->Running,
\* Start->Idle, Start->Stopped, Running->Stopped, Stopped->Idle and
\* Stopped->Start, and every change is made by a step of the engine's one
\* worker thread (handle_messages or the tick), no second thread being in
\* the worker's loop.
C28_TransitionRelation ==
  [][m_state' # m_state
       => /\ <<m_state, m_state'>> \in Transitions
          /\ \E w \in Workers : WorkerHandle(w) \/ WorkerUpdate(w, Outcomes)
          /\ Cardinality(InLoop) = 1]_vars

\* the worker w makes a tick (update_state()) in the state Running
RunningTick(w) == wpc[w] = "update" /\ wpc'[w] = "check" /\ m_state = "Running"

\* C29: a tick made in the state Running while the stream is not running
\* sets the state to Stopped, whether or not a Stop command was queued (the
\* state never stays Running across such a tick); while the stream is
\* running the tick leaves the state Running.
C29_AutonomousStop ==
  [][\A w \in Workers :
       RunningTick(w) => m_state' = (IF stream = "running" THEN "Running" ELSE "Stopped")]_vars

C29_Witness ==
  /\ m_state = "Stopped"
  /\ lastTick = [from |-> "Running", outcome |-> "none"]
  /\ stream = "open"
  /\ lastHandled = NoHandled
  /\ "Stop" \notin Pending
  /\ lastCall = "start"

\* C30: m_total_frames_processed never decreases, every change of it adds
\* the frame count of one render callback of a running stream, and it does
\* not change while the state is Idle.
C30_FramesProcessed ==
  [][m_total_frames_processed' # m_total_frames_processed
       => /\ m_total_frames_processed' = m_total_frames_processed + m_buffer_frames
          /\ m_total_frames_processed' > m_total_frames_processed
          /\ stream = "running"
          /\ m_state # "Idle"]_vars

(* ===================== MessageQueue claims, continued ================== *)

\* the consumers that are inside pop(), waiting or woken
Blocked == {t \in Threads : tpc[t] \in {"pop_wait", "pop_woken"}}

\* C31: no lost wake-up. While consumers are blocked in pop() and an item is
\* in the queue, some blocked consumer returns with an item; when as many
\* items are queued as consumers are blocked, every one of them returns, and
\* every return is with an item.
C31_NoLostWakeup ==
  /\ \A n \in 1..MaxPush :
       (Len(pushed) >= n /\ Len(popped) + Cardinality(Blocked) >= n) ~> (Len(popped) >= n)
  /\ \A t \in Threads :
       (t \in Blocked /\ Len(m_queue) >= Cardinality(Blocked)) ~> (tpc[t] = "idle")
  /\ [][\A t \in Blocked : tpc'[t] = "idle" =>
          (lastRet'.thread = t /\ lastRet'.val = Head(m_queue) /\ m_queue' = Tail(m_queue))]_vars

C31_Witness ==
  /\ Len(popped) = MaxPush
  /\ Blocked = {}
  /\ lastRet.op = "pop" /\ lastRet.val = MaxPush

\* C33: after stop() has set m_stopped, a push() does not add an item to the
\* queue.
C33_NoPushAfterStop ==
  [][\A t \in Threads : (m_stopped /\ Push(t)) => m_queue' = m_queue]_vars

\* C32: each handle_midi_message() takes exactly one message, the oldest
\* one, or does nothing when the queue is empty; at all times the messages
\* handled followed by the messages queued are the messages passed to
\* update(), in the order of the updates (so none is handled twice or out of
\* order).
C32_TrackMidiQueue ==
  /\ [](handled \o track_queue = updates)
  /\ [][HandleMidiMessage =>
          IF track_queue = <<>>
            THEN track_queue' = <<>> /\ handled' = handled /\ lastPop' = [id |-> 0, type |-> "empty"]
            ELSE /\ lastPop' = Head(track_queue)
                 /\ track_queue' = Tail(track_queue)
                 /\ handled' = Append(handled, Head(track_queue))]_vars

C32_Witness ==
  /\ Len(handled) = MaxMidi
  /\ track_queue = <<>>
  /\ lastPop.type = "empty"

(* ================== AudioEngine lifecycle claims, continued ============ *)

\* C34: after a stop_thread() followed by a start_thread() at most one
\* worker thread executes run(): the old worker is never in run()'s loop
\* together with the new one (and the start_thread() call, which joins the
\* old worker, is not left waiting for it).
C34_RestartOneWorker ==
  /\ Cardinality(InLoop) <= 1
  /\ cpc = "start_join" => (wpc[Owned] \in {"shutdown", "done"} \/ ~m_running)

\* C36: whenever no worker thread of the Audio Engine exists (before the
\* first start_thread(), and after stop_thread() has returned and the worker
\* has exited) the state is Idle.
C36_IdleWithoutWorker ==
  (cpc = "idle" /\ \A w \in Workers : wpc[w] \in {"none", "done"}) => m_state = "Idle"

\* C37: between two ticks of the worker, the state Idle implies that no
\* stream is open and the state Running implies that a stream is open.
C37_StreamStateConsistency ==
  /\ m_state = "Idle" => stream = "closed"
  /\ m_state = "Running" => stream # "closed"

\* C35: AudioEngine::stop_thread(), called while the worker is running,
\* returns: its wait for the state Idle ends, whatever the state and the
\* queue hold when it is called.
C35_StopThreadTerminates ==
  (cpc = "stop_wait" /\ WorkerAlive) ~> (cpc = "idle")

(* ===================== MidiEngine claims, continued ==================== *)

\* C38: whenever at least one track has a MIDI device input bound the
\* MidiEngine's input port is open, and unbinding one track's MIDI input
\* leaves the port open while another track still has a MIDI input bound.
C38_SharedPortStaysOpen ==
  /\ []((\E t \in Observers : HasMidiInput(t)) => port_open # NoPort)
  /\ [][\A t \in Observers :
          (RemoveMidiInput(t) /\ port_open # NoPort
             /\ \E u \in Observers \ {t} : HasMidiInput(u)) => port_open' = port_open]_vars

(* ==================== render callback claims, continued ================ *)

\* C39: stale Stop commands are harmless. A Play that a caller pushes when
\* it sees Idle leads to Running although Stop commands of the render
\* callback may still be queued: the state leaves Idle only for Start and
\* Start only for Running.
C39_StaleStopHarmless ==
  /\ (WorkerAlive /\ m_state = "Idle" /\ "Play" \in Pending) ~> (m_state = "Running")
  /\ [][(m_state = "Idle" /\ m_state' # "Idle") => m_state' = "Start"]_vars
  /\ [][(m_state = "Start" /\ m_state' # "Start") => m_state' = "Running"]_vars

C39_Witness ==
  /\ m_state = "Idle"
  /\ r_stops > 0
  /\ lastHandled.command = "Stop" /\ lastHandled.from = "Idle"
  /\ m_message_queue = <<Msg("Play")>>

\* C40: every message pushed to the Core Engine before stop_thread() is called
\* has been handled by the Core worker, in push order, when the worker exits
C40_CoreMessageDelivery ==
  e_wpc["Core"] = "done" => e_handled["Core"] = [i \in 1..e_pushed["Core"] |-> i]

====
